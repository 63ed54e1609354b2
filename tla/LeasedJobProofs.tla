--------------------------- MODULE LeasedJobProofs ---------------------------
(* The jobs of MockRefresh, InvestorAnalysis and SourceMonitoring are leased   *)
(* tasks; one refresh is made per cooldown; and the answers of a source are    *)
(* recorded in the order of its fetches: for any number of sessions, workers,  *)
(* sources and jobs.                                                        *)
EXTENDS MockRefresh, InvestorAnalysis, SourceMonitoring, Integers,
        FiniteSetTheorems, TLAPS

-----------------------------------------------------------------------------
(* MockRefresh: types, and what a worker's lease says of the row.            *)

Present(j) == refresh[j].state # "absent"

(* A row is filled once, in order; until then it has no lease.               *)
RefreshRows ==
    \A j \in RefreshJobs :
        IF Present(j)
        THEN /\ refresh[j].cooling \in Nat /\ refresh[j].created \in RefreshTimes
             /\ refresh[j].cooling - Cooldown \in RefreshTimes
             /\ refresh[j].bucket = Bucket(refresh[j].cooling - Cooldown)
             /\ \A i \in RefreshJobs : i < j => Present(i)
        ELSE refresh[j].until = NoTime

(* A worker's lease began at some moment; the row has its lease or a later    *)
(* one, or is completed; and no two workers have the same lease.             *)
MockLeases ==
    \A w \in MockWorkers : mock[w].job # 0 =>
        /\ mock[w].until - MockLease \in RefreshTimes
        /\ mock[w].until \in Nat
        /\ \/ refresh[mock[w].job].state = "completed"
           \/ /\ refresh[mock[w].job].state = "running"
              /\ refresh[mock[w].job].until \in Nat
              /\ mock[w].until <= refresh[mock[w].job].until
        /\ \A v \in MockWorkers \ {w} : mock[v].job = mock[w].job => mock[v].until # mock[w].until

(* A running job has a lease that ends.                                      *)
RunningUntil == \A j \in RefreshJobs : refresh[j].state = "running" => refresh[j].until \in Nat

RefreshInv == RefreshTypeOK /\ RefreshRows /\ RunningUntil /\ MockLeases

(* The clock's span is divided into buckets no larger than itself.           *)
LEMMA QuotientBounded ==
    ASSUME NEW n \in Nat, NEW c \in Nat \ {0}
    PROVE  n \div c \in 0 .. n
<1>1. n \div c \in Int /\ c * (n \div c) <= n /\ n < c * (n \div c) + c
  OBVIOUS
<1>2. QED
  BY <1>1

LEMMA QuotientGrows ==
    ASSUME NEW n \in Nat, NEW c \in Nat, c > 0
    PROVE  n \div c <= (n + 1) \div c
<1>1. /\ n \div c \in Int /\ c * (n \div c) <= n
      /\ (n + 1) \div c \in Int /\ n + 1 < c * ((n + 1) \div c) + c
  OBVIOUS
<1> DEFINE p == n \div c
           q == (n + 1) \div c
<1>2. p \in Int /\ q \in Int /\ c * p < c * q + c
  BY <1>1
<1> HIDE DEF p, q
<1>3. c * q + c = c * (q + 1)
  BY <1>2
<1>4. ~(p >= q + 1)
  BY <1>2, <1>3
<1>5. p <= q
  BY <1>2, <1>4
<1>6. QED
  BY <1>5 DEF p, q

LEMMA RefreshTyped ==
    ASSUME RefreshInit PROVE RefreshInv
  BY RefreshAssumption DEF RefreshInit, RefreshInv, RefreshTypeOK, RefreshRows, RunningUntil,
     MockLeases, RefreshRow, RefreshTimes, Present

(* Each row is as before, or one is filled by a request that has read.       *)
LEMMA InsertKeepsRows ==
    ASSUME RefreshInv, NEW q \in Refreshers, InsertRefresh(q)
    PROVE  RefreshInv'
<1>1. CASE UNCHANGED refresh
  <2>1. UNCHANGED <<refresh, refreshClock, mock, snapshotChecked>>
        /\ refresher' = [refresher EXCEPT ![q] = NoTime]
    BY <1>1 DEF InsertRefresh
  <2>2. RefreshTypeOK'
    BY <2>1 DEF RefreshInv, RefreshTypeOK
  <2>3. RefreshRows' /\ RunningUntil' /\ MockLeases'
    BY <2>1 DEF RefreshInv, RefreshRows, RunningUntil, MockLeases, Present
  <2>4. QED
    BY <2>2, <2>3 DEF RefreshInv
<1>2. ASSUME NEW j \in RefreshJobs, refresh[j].state = "absent",
             \A i \in 1 .. j - 1 : refresh[i].state # "absent",
             refresh' = [refresh EXCEPT ![j] = [@ EXCEPT !.state = "queued",
                !.created = refreshClock, !.bucket = Bucket(refresher[q]),
                !.cooling = refresher[q] + Cooldown]]
      PROVE  RefreshInv'
  <2>1. refresher[q] \in RefreshTimes /\ refreshClock \in RefreshTimes
    BY <1>2 DEF InsertRefresh, RefreshInv, RefreshTypeOK
  <2>2. Bucket(refresher[q]) \in RefreshTimes
    BY <2>1, RefreshAssumption, QuotientBounded DEF Bucket, RefreshTimes
  <2>3. refresh'[j] = [state |-> "queued", created |-> refreshClock,
            bucket |-> Bucket(refresher[q]), cooling |-> refresher[q] + Cooldown,
            until |-> refresh[j].until, by |-> refresh[j].by]
    BY <1>2 DEF RefreshInv, RefreshTypeOK, RefreshRow
  <2>9. refresh'[j] \in RefreshRow
    <3>1. refresh[j].until \in {NoTime} \cup Nat /\ refresh[j].by \in MockWorkers \cup {NoWorker}
      BY DEF RefreshInv, RefreshTypeOK, RefreshRow
    <3>2. refresher[q] + Cooldown \in Nat
      BY <2>1, RefreshAssumption DEF RefreshTimes
    <3>3. QED
      BY <2>1, <2>2, <2>3, <3>1, <3>2 DEF RefreshRow
  <2>4. \A i \in RefreshJobs \ {j} : refresh'[i] = refresh[i]
    BY <1>2 DEF RefreshInv, RefreshTypeOK
  <2>5. RefreshTypeOK'
    BY <1>2, <2>9 DEF InsertRefresh, RefreshInv, RefreshTypeOK
  <2>6. RefreshRows'
    <3>1. /\ refresh'[j].cooling \in Nat /\ refresh'[j].cooling - Cooldown = refresher[q]
      BY <2>1, <2>3, RefreshAssumption DEF RefreshTimes
    <3>2. \A i \in RefreshJobs : i < j => Present(i)
      BY <1>2 DEF RefreshJobs, Present
    <3>3. \A i \in RefreshJobs : Present(i) => Present(i)'
      BY <2>3, <2>4 DEF Present
    <3>4. Bucket(refresher[q]) = Bucket(refresh'[j].cooling - Cooldown)
      BY <3>1
    <3>5. SUFFICES ASSUME NEW k \in RefreshJobs
                   PROVE  IF Present(k)'
                          THEN /\ refresh'[k].cooling \in Nat /\ refresh'[k].created \in RefreshTimes
                               /\ refresh'[k].cooling - Cooldown \in RefreshTimes
                               /\ refresh'[k].bucket = Bucket(refresh'[k].cooling - Cooldown)
                               /\ \A i \in RefreshJobs : i < k => Present(i)'
                          ELSE refresh'[k].until = NoTime
      BY DEF RefreshRows
    <3>6. CASE k = j
      BY <2>1, <2>3, <3>1, <3>2, <3>3, <3>4, <3>6 DEF Present
    <3>7. CASE k # j
      BY <2>4, <3>3, <3>7 DEF RefreshInv, RefreshRows, Present
    <3>8. QED
      BY <3>6, <3>7
  <2>7. RunningUntil'
    BY <2>3, <2>4 DEF RefreshInv, RunningUntil
  <2>10. \A w \in MockWorkers : mock[w].job # 0 => mock[w].job \in RefreshJobs \ {j}
    BY <1>2 DEF RefreshInv, RefreshTypeOK, MockLeases
  <2>11. MockLeases'
    BY <2>4, <2>10 DEF InsertRefresh, RefreshInv, MockLeases
  <2>8. QED
    BY <2>5, <2>6, <2>7, <2>11 DEF RefreshInv
<1>3. QED
  BY <1>1, <1>2 DEF InsertRefresh

(* What a lease, and a completion, write into the row of a job.              *)
LEMMA LeasedFields ==
    ASSUME NEW row \in RefreshRow, NEW until, NEW by, NEW new,
           new = [row EXCEPT !.state = "running", !.until = until]
    PROVE  new = [state |-> "running", created |-> row.created, bucket |-> row.bucket,
                  cooling |-> row.cooling, until |-> until, by |-> row.by]
<1>1. row = [state |-> row.state, created |-> row.created, bucket |-> row.bucket,
             cooling |-> row.cooling, until |-> row.until, by |-> row.by]
  BY DEF RefreshRow
<1>2. QED
  BY <1>1

LEMMA CompletedFields ==
    ASSUME NEW row \in RefreshRow, NEW until, NEW by, NEW new,
           new = [row EXCEPT !.state = "completed", !.until = until, !.by = by]
    PROVE  new = [state |-> "completed", created |-> row.created, bucket |-> row.bucket,
                  cooling |-> row.cooling, until |-> until, by |-> by]
<1>1. row = [state |-> row.state, created |-> row.created, bucket |-> row.bucket,
             cooling |-> row.cooling, until |-> row.until, by |-> row.by]
  BY DEF RefreshRow
<1>2. QED
  BY <1>1

LEMMA LeasedRow ==
    ASSUME RefreshTypeOK, NEW j \in RefreshJobs,
           refresh' = [refresh EXCEPT ![j] = [@ EXCEPT !.state = "running",
                                                       !.until = refreshClock + MockLease]]
    PROVE  /\ refresh'[j] = [state |-> "running", created |-> refresh[j].created,
                 bucket |-> refresh[j].bucket, cooling |-> refresh[j].cooling,
                 until |-> refreshClock + MockLease, by |-> refresh[j].by]
           /\ \A i \in RefreshJobs \ {j} : refresh'[i] = refresh[i]
<1>1. refresh[j] \in RefreshRow /\ \A i \in RefreshJobs \ {j} : refresh'[i] = refresh[i]
  BY DEF RefreshTypeOK
<1>2. refresh'[j] = [refresh[j] EXCEPT !.state = "running", !.until = refreshClock + MockLease]
  BY DEF RefreshTypeOK
<1>3. refresh'[j] = [state |-> "running", created |-> refresh[j].created,
                     bucket |-> refresh[j].bucket, cooling |-> refresh[j].cooling,
                     until |-> refreshClock + MockLease, by |-> refresh[j].by]
  <2>1. refresh[j] \in RefreshRow
    BY <1>1
  <2>2. QED
    BY <1>2, <2>1, LeasedFields
<1>4. QED
  BY <1>1, <1>3

LEMMA CompletedRow ==
    ASSUME RefreshTypeOK, NEW j \in RefreshJobs, NEW w,
           refresh' = [refresh EXCEPT ![j] = [@ EXCEPT !.state = "completed",
                                                       !.until = NoTime, !.by = w]]
    PROVE  /\ refresh'[j] = [state |-> "completed", created |-> refresh[j].created,
                 bucket |-> refresh[j].bucket, cooling |-> refresh[j].cooling,
                 until |-> NoTime, by |-> w]
           /\ \A i \in RefreshJobs \ {j} : refresh'[i] = refresh[i]
<1>1. refresh[j] \in RefreshRow /\ \A i \in RefreshJobs \ {j} : refresh'[i] = refresh[i]
  BY DEF RefreshTypeOK
<1>2. refresh'[j] = [refresh[j] EXCEPT !.state = "completed", !.until = NoTime, !.by = w]
  BY DEF RefreshTypeOK
<1>3. refresh'[j] = [state |-> "completed", created |-> refresh[j].created,
                     bucket |-> refresh[j].bucket, cooling |-> refresh[j].cooling,
                     until |-> NoTime, by |-> w]
  <2>1. refresh[j] \in RefreshRow
    BY <1>1
  <2>2. QED
    BY <1>2, <2>1, CompletedFields
<1>4. QED
  BY <1>1, <1>3

LEMMA LeaseKeepsRows ==
    ASSUME RefreshInv, NEW w \in MockWorkers, LeaseRefresh(w)
    PROVE  RefreshInv'
<1> PICK j \in RefreshJobs :
        /\ \/ refresh[j].state = "queued"
           \/ refresh[j].state = "running" /\ refresh[j].until <= refreshClock
        /\ refresh' = [refresh EXCEPT ![j] = [@ EXCEPT !.state = "running",
                                                       !.until = refreshClock + MockLease]]
        /\ mock' = [mock EXCEPT ![w] = [job |-> j, until |-> refreshClock + MockLease]]
  BY DEF LeaseRefresh
<1>1. refreshClock + MockLease \in Nat /\ refreshClock \in RefreshTimes /\ refreshClock \in Nat
  BY RefreshAssumption DEF RefreshInv, RefreshTypeOK, RefreshTimes
<1>2. refresh'[j] = [state |-> "running", created |-> refresh[j].created,
          bucket |-> refresh[j].bucket, cooling |-> refresh[j].cooling,
          until |-> refreshClock + MockLease, by |-> refresh[j].by]
  BY LeasedRow DEF RefreshInv
<1>3. \A i \in RefreshJobs \ {j} : refresh'[i] = refresh[i]
  BY LeasedRow DEF RefreshInv
<1>4. /\ mock'[w] = [job |-> j, until |-> refreshClock + MockLease]
      /\ \A v \in MockWorkers \ {w} : mock'[v] = mock[v]
  BY DEF RefreshInv, RefreshTypeOK
<1>5. RefreshTypeOK'
  <2>1. refresh'[j] \in RefreshRow
    BY <1>1, <1>2 DEF RefreshInv, RefreshTypeOK, RefreshRow
  <2>2. QED
    BY <1>1, <2>1 DEF LeaseRefresh, RefreshInv, RefreshTypeOK
<1>6. RefreshRows' /\ RunningUntil'
  BY <1>1, <1>2, <1>3 DEF RefreshInv, RefreshRows, RunningUntil, Present
<1>7. \A v \in MockWorkers \ {w} : mock[v].job = j =>
          mock[v].until \in Nat /\ mock[v].until <= refreshClock
  BY <1>1, RefreshAssumption DEF RefreshInv, RefreshTypeOK, MockLeases, RefreshJobs, RunningUntil
<1>8. MockLeases'
  <2>1. SUFFICES ASSUME NEW v \in MockWorkers, mock'[v].job # 0
                 PROVE  /\ mock'[v].until - MockLease \in RefreshTimes /\ mock'[v].until \in Nat
                        /\ \/ refresh'[mock'[v].job].state = "completed"
                           \/ /\ refresh'[mock'[v].job].state = "running"
                              /\ refresh'[mock'[v].job].until \in Nat
                              /\ mock'[v].until <= refresh'[mock'[v].job].until
                        /\ \A u \in MockWorkers \ {v} :
                              mock'[u].job = mock'[v].job => mock'[u].until # mock'[v].until
    BY DEF MockLeases
  <2>2. CASE v = w
    BY <1>1, <1>2, <1>4, <1>7, <2>2, RefreshAssumption
  <2>3. CASE v # w /\ mock[v].job = j
    BY <1>1, <1>2, <1>4, <1>7, <2>1, <2>3, RefreshAssumption DEF RefreshInv, MockLeases
  <2>4. CASE v # w /\ mock[v].job # j
    <3>1. mock[v].job \in RefreshJobs \ {j}
      BY <1>4, <2>1, <2>4 DEF RefreshInv, RefreshTypeOK
    <3>2. QED
      BY <1>3, <1>4, <2>1, <2>4, <3>1 DEF RefreshInv, MockLeases
  <2>5. QED
    BY <2>2, <2>3, <2>4
<1>9. QED
  BY <1>5, <1>6, <1>8 DEF RefreshInv

LEMMA CompleteKeepsRows ==
    ASSUME RefreshInv, NEW w \in MockWorkers, CompleteRefresh(w)
    PROVE  RefreshInv'
<1>0. PICK j \in RefreshJobs : j = mock[w].job
  BY DEF CompleteRefresh, RefreshInv, RefreshTypeOK
<1>1. /\ mock[w].job = j /\ 0 \notin RefreshJobs /\ mock[w].until - MockLease \in RefreshTimes
      /\ mock' = [mock EXCEPT ![w] = [job |-> 0, until |-> NoTime]]
  BY <1>0 DEF CompleteRefresh, RefreshInv, RefreshTypeOK, MockLeases, RefreshJobs
<1>2. CASE UNCHANGED <<refresh, snapshotChecked>>
  BY <1>1, <1>2 DEF CompleteRefresh, RefreshInv, RefreshTypeOK, RefreshRows, RunningUntil,
     MockLeases, Present
<1>3. CASE /\ HoldsRefresh(w)
           /\ refresh' = [refresh EXCEPT ![j] = [@ EXCEPT !.state = "completed",
                                                         !.until = NoTime, !.by = w]]
           /\ snapshotChecked' = CheckedAt(w)
  <2>1. refresh'[j] = [state |-> "completed", created |-> refresh[j].created,
            bucket |-> refresh[j].bucket, cooling |-> refresh[j].cooling,
            until |-> NoTime, by |-> w]
    BY <1>3, CompletedRow DEF RefreshInv
  <2>2. \A i \in RefreshJobs \ {j} : refresh'[i] = refresh[i]
    BY <1>3, CompletedRow DEF RefreshInv
  <2>3. RefreshTypeOK'
    <3>1. refresh'[j] \in RefreshRow
      BY <1>1, <2>1 DEF RefreshInv, RefreshTypeOK, RefreshRow
    <3>2. refresh' \in [RefreshJobs -> RefreshRow]
      BY <1>3, <3>1 DEF RefreshInv, RefreshTypeOK
    <3>3. snapshotChecked' \in RefreshTimes
      BY <1>1, <1>3 DEF CheckedAt
    <3>4. QED
      BY <1>1, <3>2, <3>3 DEF CompleteRefresh, RefreshInv, RefreshTypeOK
  <2>4. Present(j) /\ RefreshRows' /\ RunningUntil'
    BY <1>1, <1>3, <2>1, <2>2
    DEF RefreshInv, RefreshRows, RunningUntil, Present, HoldsRefresh
  <2>5. /\ mock'[w].job = 0 /\ \A v \in MockWorkers \ {w} : mock'[v] = mock[v]
    BY <1>1 DEF RefreshInv, RefreshTypeOK
  <2>6. MockLeases'
    BY <1>1, <2>1, <2>2, <2>5 DEF RefreshInv, RefreshTypeOK, MockLeases
  <2>7. QED
    BY <2>3, <2>4, <2>6 DEF RefreshInv
<1>4. QED
  BY <1>1, <1>2, <1>3 DEF CompleteRefresh

LEMMA RefreshInvStep ==
    ASSUME RefreshInv, [RefreshNext]_refreshVars PROVE RefreshInv'
<1>1. ASSUME NEW q \in Refreshers, ReadRefresh(q) PROVE RefreshInv'
  BY <1>1 DEF ReadRefresh, RefreshInv, RefreshTypeOK, RefreshRows, RunningUntil, MockLeases, Present
<1>2. ASSUME NEW w \in MockWorkers, MockCrash(w) PROVE RefreshInv'
  BY <1>2 DEF MockCrash, RefreshInv, RefreshTypeOK, RefreshRows, RunningUntil, MockLeases, Present
<1>3. CASE RefreshTick
  BY <1>3, RefreshAssumption
  DEF RefreshTick, RefreshInv, RefreshTypeOK, RefreshRows, RunningUntil, MockLeases, Present,
      RefreshTimes
<1>4. CASE UNCHANGED refreshVars
  BY <1>4 DEF refreshVars, RefreshInv, RefreshTypeOK, RefreshRows, RunningUntil, MockLeases, Present
<1>5. QED
  BY <1>1, <1>2, <1>3, <1>4, InsertKeepsRows, LeaseKeepsRows, CompleteKeepsRows DEF RefreshNext

-----------------------------------------------------------------------------
(* One refresh per cooldown: a request that has read found every job that    *)
(* existed cooled down, and those that came later were made after it read.   *)
SessionsRead ==
    \A q \in Refreshers : refresher[q] # NoTime =>
        /\ refresher[q] <= refreshClock
        /\ \A j \in RefreshJobs : Present(j) =>
              refresher[q] >= refresh[j].cooling \/ refresher[q] <= refresh[j].created

CooldownInv == RefreshInv /\ SessionsRead /\ OneRefreshPerCooldown

(* What the properties read of the rows, other than whether a job has ended.  *)
SameRequests ==
    \A j \in RefreshJobs :
        /\ Present(j)' <=> Present(j)
        /\ refresh'[j].cooling = refresh[j].cooling /\ refresh'[j].created = refresh[j].created
        /\ refresh'[j].bucket = refresh[j].bucket

LEMMA RequestsKeepCooldown ==
    ASSUME CooldownInv, SameRequests, UNCHANGED <<refresher, refreshClock>>
    PROVE  SessionsRead' /\ OneRefreshPerCooldown'
<1>1. SessionsRead'
  BY DEF CooldownInv, SessionsRead, SameRequests
<1>2. OneRefreshPerCooldown'
  BY DEF CooldownInv, OneRefreshPerCooldown, SameRequests, Present
<1>3. QED
  BY <1>1, <1>2

LEMMA WorkersKeepRequests ==
    ASSUME RefreshInv, NEW w \in MockWorkers,
           LeaseRefresh(w) \/ CompleteRefresh(w) \/ MockCrash(w)
    PROVE  SameRequests /\ UNCHANGED <<refresher, refreshClock>>
<1>1. CASE LeaseRefresh(w)
  <2> PICK j \in RefreshJobs :
        /\ refresh[j].state \in {"queued", "running"}
        /\ refresh' = [refresh EXCEPT ![j] = [@ EXCEPT !.state = "running",
                                                       !.until = refreshClock + MockLease]]
    BY <1>1 DEF LeaseRefresh
  <2>1. refresh'[j] = [state |-> "running", created |-> refresh[j].created,
            bucket |-> refresh[j].bucket, cooling |-> refresh[j].cooling,
            until |-> refreshClock + MockLease, by |-> refresh[j].by]
    BY LeasedRow DEF RefreshInv
  <2>2. \A i \in RefreshJobs \ {j} : refresh'[i] = refresh[i]
    BY LeasedRow DEF RefreshInv
  <2>3. QED
    <3>1. Present(j) /\ Present(j)'
      BY <2>1 DEF Present
    <3>2. \A i \in RefreshJobs : Present(i)' <=> Present(i)
      BY <2>2, <3>1 DEF Present
    <3>3. \A i \in RefreshJobs :
              /\ refresh'[i].cooling = refresh[i].cooling /\ refresh'[i].created = refresh[i].created
              /\ refresh'[i].bucket = refresh[i].bucket
      BY <2>1, <2>2
    <3>4. UNCHANGED <<refresher, refreshClock>>
      BY <1>1 DEF LeaseRefresh
    <3>5. QED
      BY <3>2, <3>3, <3>4 DEF SameRequests
<1>2. CASE CompleteRefresh(w) /\ UNCHANGED refresh
  BY <1>2 DEF CompleteRefresh, SameRequests, Present
<1>3. CASE CompleteRefresh(w) /\ HoldsRefresh(w)
  <2>0. PICK j \in RefreshJobs : j = mock[w].job
    BY <1>3 DEF CompleteRefresh, RefreshInv, RefreshTypeOK
  <2>1. refresh' = [refresh EXCEPT ![j] = [@ EXCEPT !.state = "completed",
                                                    !.until = NoTime, !.by = w]]
    BY <1>3, <2>0 DEF CompleteRefresh
  <2>2. refresh'[j] = [state |-> "completed", created |-> refresh[j].created,
            bucket |-> refresh[j].bucket, cooling |-> refresh[j].cooling,
            until |-> NoTime, by |-> w]
    BY <2>1, CompletedRow DEF RefreshInv
  <2>3. \A i \in RefreshJobs \ {j} : refresh'[i] = refresh[i]
    BY <2>1, CompletedRow DEF RefreshInv
  <2>4. QED
    <3>1. Present(j) /\ Present(j)'
      BY <1>3, <2>0, <2>2 DEF HoldsRefresh, Present
    <3>2. \A i \in RefreshJobs : Present(i)' <=> Present(i)
      BY <2>3, <3>1 DEF Present
    <3>3. QED
      BY <1>3, <2>2, <2>3, <3>2 DEF CompleteRefresh, SameRequests
<1>4. CASE MockCrash(w)
  BY <1>4 DEF MockCrash, SameRequests, Present
<1>5. QED
  BY <1>1, <1>2, <1>3, <1>4 DEF CompleteRefresh

(* The insert: every other job is cooled down for the request that inserts,   *)
(* or came after it had read and has the key of another bucket.              *)
LEMMA InsertKeepsCooldown ==
    ASSUME CooldownInv, NEW q \in Refreshers, InsertRefresh(q)
    PROVE  SessionsRead' /\ OneRefreshPerCooldown'
<1>1. refresher' = [refresher EXCEPT ![q] = NoTime] /\ UNCHANGED refreshClock
  BY DEF InsertRefresh
<1>2. CASE UNCHANGED refresh
  BY <1>1, <1>2 DEF CooldownInv, RefreshInv, RefreshTypeOK, SessionsRead, OneRefreshPerCooldown,
     Present
<1>3. ASSUME NEW j \in RefreshJobs, refresh[j].state = "absent",
             refresh' = [refresh EXCEPT ![j] = [@ EXCEPT !.state = "queued",
                !.created = refreshClock, !.bucket = Bucket(refresher[q]),
                !.cooling = refresher[q] + Cooldown]],
             \A i \in RefreshJobs : ~Merges(i, refresher[q])
      PROVE  SessionsRead' /\ OneRefreshPerCooldown'
  <2>1. /\ refresher[q] \in Nat /\ refresher[q] # NoTime /\ refreshClock \in Nat
        /\ \A p \in Refreshers : refresher[p] # NoTime => refresher[p] \in Nat
    <3>1. RefreshTimes \subseteq Nat
      BY RefreshAssumption DEF RefreshTimes
    <3>2. QED
      BY <3>1 DEF InsertRefresh, CooldownInv, RefreshInv, RefreshTypeOK
  <2>2. refresh'[j] = [state |-> "queued", created |-> refreshClock,
            bucket |-> Bucket(refresher[q]), cooling |-> refresher[q] + Cooldown,
            until |-> refresh[j].until, by |-> refresh[j].by]
    BY <1>3 DEF CooldownInv, RefreshInv, RefreshTypeOK, RefreshRow
  <2>3. \A i \in RefreshJobs \ {j} : refresh'[i] = refresh[i]
    BY <1>3 DEF CooldownInv, RefreshInv, RefreshTypeOK
  <2>4. SessionsRead'
    BY <1>1, <2>1, <2>2, <2>3 DEF CooldownInv, RefreshInv, RefreshTypeOK, SessionsRead, Present
  <2>5. OneRefreshPerCooldown'
    <3>1. SUFFICES ASSUME NEW i \in RefreshJobs, NEW k \in RefreshJobs, i < k,
                          refresh'[k].state # "absent"
                   PROVE  \/ refresh'[k].cooling - Cooldown >= refresh'[i].cooling
                          \/ /\ refresh'[k].cooling - Cooldown <= refresh'[i].created
                             /\ refresh'[k].bucket # refresh'[i].bucket
      BY DEF OneRefreshPerCooldown
    <3>2. CASE k # j
      <4>1. refresh'[k] = refresh[k] /\ Present(k) /\ Present(i) /\ i # j
        BY <1>3, <2>3, <3>1, <3>2 DEF CooldownInv, RefreshInv, RefreshRows, Present
      <4>2. QED
        BY <2>3, <3>1, <4>1 DEF CooldownInv, OneRefreshPerCooldown, Present
    <3>3. CASE k = j
      <4>1. i # j /\ refresh'[i] = refresh[i]
        BY <2>3, <3>1, <3>3 DEF RefreshJobs
      <4>2. Present(i)
        <5>1. RefreshRows'
          BY InsertKeepsRows DEF CooldownInv, RefreshInv
        <5>2. QED
          BY <3>1, <3>3, <4>1, <5>1 DEF RefreshRows, Present
      <4>3. \/ refresher[q] >= refresh[i].cooling
            \/ refresher[q] <= refresh[i].created /\ refresh[i].bucket # Bucket(refresher[q])
        BY <1>3, <2>1, <4>2 DEF CooldownInv, SessionsRead, Merges
      <4>4. refresh'[k].cooling - Cooldown = refresher[q]
        BY <2>1, <2>2, <3>3, RefreshAssumption
      <4>5. QED
        BY <2>2, <3>3, <4>1, <4>3, <4>4
    <3>4. QED
      BY <3>2, <3>3
  <2>6. QED
    BY <2>4, <2>5
<1>4. QED
  BY <1>2, <1>3 DEF InsertRefresh

LEMMA CooldownStep ==
    ASSUME CooldownInv, [RefreshNext]_refreshVars PROVE CooldownInv'
<1>1. RefreshInv'
  BY RefreshInvStep DEF CooldownInv
<1>2. ASSUME NEW q \in Refreshers, ReadRefresh(q) PROVE SessionsRead' /\ OneRefreshPerCooldown'
  <2>1. \A j \in RefreshJobs : Present(j) => refreshClock >= refresh[j].cooling
    BY <1>2 DEF ReadRefresh, MergeCandidate, CooldownInv, RefreshInv, RefreshTypeOK, RefreshRow,
       RefreshRows, Present, OpenRefresh, RefreshTimes
  <2>2. SessionsRead'
    BY <1>2, <2>1
    DEF ReadRefresh, CooldownInv, RefreshInv, RefreshTypeOK, RefreshTimes, SessionsRead, Present
  <2>3. OneRefreshPerCooldown'
    BY <1>2 DEF ReadRefresh, CooldownInv, OneRefreshPerCooldown
  <2>4. QED
    BY <2>2, <2>3
<1>3. CASE RefreshTick
  <2>1. SameRequests /\ UNCHANGED refresher
    BY <1>3 DEF RefreshTick, SameRequests, Present
  <2>2. refreshClock' = refreshClock + 1 /\ refreshClock \in Nat
    BY <1>3, RefreshAssumption
    DEF RefreshTick, CooldownInv, RefreshInv, RefreshTypeOK, RefreshTimes
  <2>3. \A q \in Refreshers : refresher[q] # NoTime => refresher[q] \in Nat
    BY RefreshAssumption DEF CooldownInv, RefreshInv, RefreshTypeOK, RefreshTimes
  <2>4. SessionsRead'
    BY <2>1, <2>2, <2>3 DEF CooldownInv, SessionsRead, SameRequests
  <2>5. OneRefreshPerCooldown'
    BY <2>1 DEF CooldownInv, OneRefreshPerCooldown, SameRequests, Present
  <2>6. QED
    BY <1>1, <2>4, <2>5 DEF CooldownInv
<1>4. CASE UNCHANGED refreshVars
  <2>1. SameRequests /\ UNCHANGED <<refresher, refreshClock>>
    BY <1>4 DEF refreshVars, SameRequests, Present
  <2>2. QED
    BY <1>1, <2>1, RequestsKeepCooldown DEF CooldownInv
<1>5. ASSUME NEW w \in MockWorkers, LeaseRefresh(w) \/ CompleteRefresh(w) \/ MockCrash(w)
      PROVE  SessionsRead' /\ OneRefreshPerCooldown'
  BY <1>5, WorkersKeepRequests, RequestsKeepCooldown DEF CooldownInv
<1>6. SessionsRead' /\ OneRefreshPerCooldown'
  BY <1>2, <1>3, <1>4, <1>5, InsertKeepsCooldown DEF RefreshNext, CooldownInv
<1>7. QED
  BY <1>1, <1>6 DEF CooldownInv

(* Of two refresh jobs of a company the later was asked for after the         *)
(* cooldown of the earlier, however many sessions race, or by a request that  *)
(* read before the earlier was inserted and falls in another bucket.         *)
(* (_create_or_merge_refresh_job)                                           *)
THEOREM RefreshesSpaced == RefreshSpec => []OneRefreshPerCooldown
<1>1. RefreshInit => CooldownInv
  BY RefreshTyped DEF RefreshInit, CooldownInv, SessionsRead, OneRefreshPerCooldown, Present
<1>2. CooldownInv /\ [RefreshNext]_refreshVars => CooldownInv'
  BY CooldownStep
<1>3. CooldownInv => OneRefreshPerCooldown
  BY DEF CooldownInv
<1>4. QED
  BY <1>1, <1>2, <1>3, PTL DEF RefreshSpec

-----------------------------------------------------------------------------
(* MockRefresh implements LeasedJob.  What a job is in the abstract table:    *)
RefreshPhase(j) ==
    IF refresh[j].state = "absent" THEN "absent" ELSE IF OpenRefresh(j) THEN "open" ELSE "closed"
RefreshHolders(j) ==
    {w \in MockWorkers : OpenRefresh(j) /\ mock[w].job = j /\ mock[w].until = refresh[j].until}

(* The steps of the abstract table, in these terms.                          *)
LEMMA RefreshTaken ==
    ASSUME NEW j \in RefreshJobs, NEW w \in MockWorkers, OpenRefresh(j),
           \A i \in RefreshJobs : RefreshPhase(i)' = RefreshPhase(i) /\ refresh'[i].by = refresh[i].by,
           RefreshHolders(j)' = {w},
           \A i \in RefreshJobs \ {j} : RefreshHolders(i)' = RefreshHolders(i)
    PROVE  RefreshLeases!LeasedNext
<1> DEFINE P == [i \in RefreshJobs |-> RefreshPhase(i)]
           H == [i \in RefreshJobs |-> RefreshHolders(i)]
           F == [i \in RefreshJobs |-> refresh[i].by]
<1>1. H' = [H EXCEPT ![j] = {w}]
  OBVIOUS
<1>2. P' = P
  OBVIOUS
<1>3. F' = F
  OBVIOUS
<1>4. P[j] = "open"
  BY DEF RefreshPhase, OpenRefresh
<1>5. RefreshLeases!Take(j, w)
  BY <1>1, <1>2, <1>3, <1>4 DEF RefreshLeases!Take, RefreshPhase, RefreshHolders
<1>6. QED
  BY <1>5 DEF RefreshLeases!LeasedNext

LEMMA RefreshAbandoned ==
    ASSUME NEW j \in RefreshJobs, OpenRefresh(j),
           \A i \in RefreshJobs : RefreshPhase(i)' = RefreshPhase(i) /\ refresh'[i].by = refresh[i].by,
           RefreshHolders(j)' = {},
           \A i \in RefreshJobs \ {j} : RefreshHolders(i)' = RefreshHolders(i)
    PROVE  RefreshLeases!LeasedNext
<1> DEFINE P == [i \in RefreshJobs |-> RefreshPhase(i)]
           H == [i \in RefreshJobs |-> RefreshHolders(i)]
           F == [i \in RefreshJobs |-> refresh[i].by]
<1>1. H' = [H EXCEPT ![j] = {}]
  OBVIOUS
<1>2. P' = P
  OBVIOUS
<1>3. F' = F
  OBVIOUS
<1>4. P[j] = "open"
  BY DEF RefreshPhase, OpenRefresh
<1>5. RefreshLeases!Abandon(j)
  BY <1>1, <1>2, <1>3, <1>4 DEF RefreshLeases!Abandon, RefreshPhase, RefreshHolders
<1>6. QED
  BY <1>5 DEF RefreshLeases!LeasedNext

LEMMA RefreshFinished ==
    ASSUME NEW j \in RefreshJobs, NEW w \in RefreshHolders(j), OpenRefresh(j),
           RefreshPhase(j)' = "closed", RefreshHolders(j)' = {}, refresh'[j].by = w,
           \A i \in RefreshJobs \ {j} :
              /\ RefreshPhase(i)' = RefreshPhase(i) /\ RefreshHolders(i)' = RefreshHolders(i)
              /\ refresh'[i].by = refresh[i].by
    PROVE  RefreshLeases!LeasedNext
<1> DEFINE P == [i \in RefreshJobs |-> RefreshPhase(i)]
           H == [i \in RefreshJobs |-> RefreshHolders(i)]
           F == [i \in RefreshJobs |-> refresh[i].by]
<1>1. P' = [P EXCEPT ![j] = "closed"]
  OBVIOUS
<1>2. H' = [H EXCEPT ![j] = {}]
  OBVIOUS
<1>3. F' = [F EXCEPT ![j] = w]
  OBVIOUS
<1>4. P[j] = "open" /\ w \in H[j]
  BY DEF RefreshPhase, OpenRefresh
<1>5. RefreshLeases!Finish(j, w)
  BY <1>1, <1>2, <1>3, <1>4 DEF RefreshLeases!Finish, RefreshPhase, RefreshHolders
<1>6. w \in MockWorkers
  BY DEF RefreshHolders
<1>7. QED
  BY <1>5, <1>6 DEF RefreshLeases!LeasedNext

LEMMA RefreshEntered ==
    ASSUME \A i \in RefreshJobs :
              /\ \/ RefreshPhase(i)' = RefreshPhase(i)
                 \/ RefreshPhase(i) = "absent" /\ RefreshPhase(i)' = "open"
              /\ RefreshHolders(i)' = RefreshHolders(i) /\ refresh'[i].by = refresh[i].by
    PROVE  RefreshLeases!LeasedNext
<1>1. RefreshLeases!Enter
  BY DEF RefreshLeases!Enter, RefreshPhase, RefreshHolders
<1>2. QED
  BY <1>1 DEF RefreshLeases!LeasedNext

LEMMA RefreshStays ==
    ASSUME \A i \in RefreshJobs :
              /\ RefreshPhase(i)' = RefreshPhase(i) /\ RefreshHolders(i)' = RefreshHolders(i)
              /\ refresh'[i].by = refresh[i].by
    PROVE  UNCHANGED RefreshLeases!leasedVars
  BY DEF RefreshLeases!leasedVars, RefreshPhase, RefreshHolders

(* A worker takes the job over: the others' leases have run out.             *)
LEMMA LeaseTakes ==
    ASSUME RefreshInv, NEW w \in MockWorkers, LeaseRefresh(w)
    PROVE  RefreshLeases!LeasedNext
<1>1. PICK j \in RefreshJobs :
        /\ \/ refresh[j].state = "queued"
           \/ refresh[j].state = "running" /\ refresh[j].until <= refreshClock
        /\ refresh' = [refresh EXCEPT ![j] = [@ EXCEPT !.state = "running",
                                                       !.until = refreshClock + MockLease]]
        /\ mock' = [mock EXCEPT ![w] = [job |-> j, until |-> refreshClock + MockLease]]
  BY DEF LeaseRefresh
<1>2. refresh'[j] = [state |-> "running", created |-> refresh[j].created,
          bucket |-> refresh[j].bucket, cooling |-> refresh[j].cooling,
          until |-> refreshClock + MockLease, by |-> refresh[j].by]
  BY <1>1, LeasedRow DEF RefreshInv
<1>3. \A i \in RefreshJobs \ {j} : refresh'[i] = refresh[i]
  BY <1>1, LeasedRow DEF RefreshInv
<1>4. /\ mock[w].job = 0 /\ 0 \notin RefreshJobs
      /\ mock'[w] = [job |-> j, until |-> refreshClock + MockLease]
      /\ \A v \in MockWorkers \ {w} : mock'[v] = mock[v]
  BY <1>1 DEF LeaseRefresh, RefreshInv, RefreshTypeOK, RefreshJobs
<1>5. \A v \in MockWorkers : mock[v].job = j => mock[v].until < refreshClock + MockLease
  <2>1. refreshClock \in Nat
    BY RefreshAssumption DEF RefreshInv, RefreshTypeOK, RefreshTimes
  <2>2. QED
    BY <1>1, <1>4, <2>1, RefreshAssumption DEF RefreshInv, RunningUntil, MockLeases
<1>6. OpenRefresh(j) /\ RefreshHolders(j)' = {w}
  <2>1. \A v \in MockWorkers \ {w} : mock'[v].job = j => mock'[v].until # refreshClock + MockLease
    BY <1>4, <1>5, RefreshAssumption DEF RefreshInv, RefreshTypeOK, MockLeases, RefreshTimes
  <2>2. QED
    BY <1>1, <1>2, <1>4, <2>1 DEF OpenRefresh, RefreshHolders
<1>7. \A i \in RefreshJobs \ {j} : RefreshHolders(i)' = RefreshHolders(i)
  BY <1>3, <1>4 DEF OpenRefresh, RefreshHolders
<1>8. \A i \in RefreshJobs : RefreshPhase(i)' = RefreshPhase(i) /\ refresh'[i].by = refresh[i].by
  BY <1>1, <1>2, <1>3 DEF OpenRefresh, RefreshPhase
<1>9. QED
  BY <1>6, <1>7, <1>8, RefreshTaken

(* Only the holder of the lease completes the job.                           *)
LEMMA CompleteFinishes ==
    ASSUME RefreshInv, NEW w \in MockWorkers, CompleteRefresh(w)
    PROVE  RefreshLeases!LeasedNext \/ UNCHANGED RefreshLeases!leasedVars
<1>1. PICK j \in RefreshJobs : j = mock[w].job
  BY DEF CompleteRefresh, RefreshInv, RefreshTypeOK
<1>2. /\ 0 \notin RefreshJobs
      /\ mock'[w] = [job |-> 0, until |-> NoTime]
      /\ \A v \in MockWorkers \ {w} : mock'[v] = mock[v]
  BY DEF CompleteRefresh, RefreshInv, RefreshTypeOK, RefreshJobs
<1>3. CASE ~HoldsRefresh(w)
  <2>1. UNCHANGED refresh
    BY <1>3 DEF CompleteRefresh
  <2>2. \A i \in RefreshJobs : w \notin RefreshHolders(i)
    BY <1>1, <1>2, <1>3 DEF RefreshInv, MockLeases, HoldsRefresh, OpenRefresh, RefreshHolders
  <2>3. \A i \in RefreshJobs : RefreshHolders(i)' = RefreshHolders(i)
    BY <1>2, <2>1, <2>2 DEF OpenRefresh, RefreshHolders
  <2>4. QED
    BY <2>1, <2>3, RefreshStays DEF RefreshPhase, OpenRefresh
<1>4. CASE HoldsRefresh(w)
  <2>1. refresh' = [refresh EXCEPT ![j] = [@ EXCEPT !.state = "completed",
                                                   !.until = NoTime, !.by = w]]
    BY <1>1, <1>4 DEF CompleteRefresh
  <2>2. refresh'[j] = [state |-> "completed", created |-> refresh[j].created,
            bucket |-> refresh[j].bucket, cooling |-> refresh[j].cooling,
            until |-> NoTime, by |-> w]
    BY <2>1, CompletedRow DEF RefreshInv
  <2>3. \A i \in RefreshJobs \ {j} : refresh'[i] = refresh[i]
    BY <2>1, CompletedRow DEF RefreshInv
  <2>4. OpenRefresh(j) /\ w \in RefreshHolders(j)
    BY <1>1, <1>4 DEF HoldsRefresh, OpenRefresh, RefreshHolders
  <2>5. RefreshPhase(j)' = "closed" /\ RefreshHolders(j)' = {}
    BY <2>2 DEF OpenRefresh, RefreshPhase, RefreshHolders
  <2>6. \A i \in RefreshJobs \ {j} : RefreshHolders(i)' = RefreshHolders(i)
    BY <1>1, <1>2, <2>3 DEF OpenRefresh, RefreshHolders
  <2>7. \A i \in RefreshJobs \ {j} :
           RefreshPhase(i)' = RefreshPhase(i) /\ refresh'[i].by = refresh[i].by
    BY <2>3 DEF OpenRefresh, RefreshPhase
  <2>8. QED
    BY <2>2, <2>4, <2>5, <2>6, <2>7, RefreshFinished
<1>5. QED
  BY <1>3, <1>4

LEMMA CrashAbandons ==
    ASSUME RefreshInv, NEW w \in MockWorkers, MockCrash(w)
    PROVE  RefreshLeases!LeasedNext \/ UNCHANGED RefreshLeases!leasedVars
<1>1. PICK j \in RefreshJobs : j = mock[w].job
  BY DEF MockCrash, RefreshInv, RefreshTypeOK
<1>2. /\ 0 \notin RefreshJobs
      /\ mock'[w] = [job |-> 0, until |-> NoTime]
      /\ \A v \in MockWorkers \ {w} : mock'[v] = mock[v]
  BY DEF MockCrash, RefreshInv, RefreshTypeOK, RefreshJobs
<1>3. \A i \in RefreshJobs :
        RefreshPhase(i)' = RefreshPhase(i) /\ refresh'[i].by = refresh[i].by
  BY DEF MockCrash, OpenRefresh, RefreshPhase
<1>4. \A i \in RefreshJobs \ {j} : RefreshHolders(i)' = RefreshHolders(i)
  BY <1>1, <1>2 DEF MockCrash, OpenRefresh, RefreshHolders
<1>5. CASE w \in RefreshHolders(j)
  <2>1. \A v \in MockWorkers \ {w} : v \notin RefreshHolders(j)
    BY <1>1, <1>5 DEF MockCrash, RefreshInv, MockLeases, RefreshHolders
  <2>2. OpenRefresh(j) /\ RefreshHolders(j)' = {}
    BY <1>2, <1>5, <2>1 DEF MockCrash, OpenRefresh, RefreshHolders
  <2>3. QED
    BY <1>3, <1>4, <2>2, RefreshAbandoned
<1>6. CASE w \notin RefreshHolders(j)
  <2>1. RefreshHolders(j)' = RefreshHolders(j)
    BY <1>2, <1>6 DEF MockCrash, OpenRefresh, RefreshHolders
  <2>2. QED
    BY <1>3, <1>4, <2>1, RefreshStays
<1>7. QED
  BY <1>5, <1>6

LEMMA InsertEnters ==
    ASSUME RefreshInv, NEW q \in Refreshers, InsertRefresh(q)
    PROVE  RefreshLeases!LeasedNext
<1>1. CASE UNCHANGED refresh
  BY <1>1, RefreshEntered DEF InsertRefresh, OpenRefresh, RefreshPhase, RefreshHolders
<1>2. ASSUME NEW j \in RefreshJobs, refresh[j].state = "absent",
             refresh' = [refresh EXCEPT ![j] = [@ EXCEPT !.state = "queued",
                !.created = refreshClock, !.bucket = Bucket(refresher[q]),
                !.cooling = refresher[q] + Cooldown]]
      PROVE  RefreshLeases!LeasedNext
  <2>1. /\ refresh'[j].state = "queued" /\ refresh'[j].by = refresh[j].by
        /\ \A i \in RefreshJobs \ {j} : refresh'[i] = refresh[i]
    BY <1>2 DEF RefreshInv, RefreshTypeOK, RefreshRow
  <2>2. \A w \in MockWorkers : mock[w].job # j
    BY <1>2 DEF RefreshInv, RefreshTypeOK, MockLeases, RefreshJobs
  <2>6. UNCHANGED mock
    BY DEF InsertRefresh
  <2>3. \A i \in RefreshJobs : RefreshHolders(i)' = RefreshHolders(i)
    BY <2>1, <2>2, <2>6 DEF OpenRefresh, RefreshHolders
  <2>4. \A i \in RefreshJobs : \/ RefreshPhase(i)' = RefreshPhase(i)
                               \/ RefreshPhase(i) = "absent" /\ RefreshPhase(i)' = "open"
    BY <1>2, <2>1 DEF OpenRefresh, RefreshPhase
  <2>5. QED
    BY <2>1, <2>3, <2>4, RefreshEntered
<1>3. QED
  BY <1>1, <1>2 DEF InsertRefresh

LEMMA RefreshStepLeased ==
    ASSUME RefreshInv, [RefreshNext]_refreshVars
    PROVE  [RefreshLeases!LeasedNext]_RefreshLeases!leasedVars
<1>1. ASSUME UNCHANGED <<refresh, mock>> PROVE UNCHANGED RefreshLeases!leasedVars
  BY <1>1, RefreshStays DEF OpenRefresh, RefreshPhase, RefreshHolders
<1>2. QED
  BY <1>1, InsertEnters, LeaseTakes, CompleteFinishes, CrashAbandons
  DEF RefreshNext, refreshVars, ReadRefresh, RefreshTick

(* A refresh job is completed at most once, by the worker whose lease the row *)
(* carries; a worker whose lease was given to another completes nothing.     *)
(* (_lease_next_job, _complete_job)                                         *)
THEOREM RefreshesImplementLeases == RefreshSpec => RefreshesAreLeased
<1>1. RefreshInit => RefreshInv
  BY RefreshTyped
<1>2. RefreshInit => RefreshLeases!LeasedInit
  BY DEF RefreshInit, RefreshLeases!LeasedInit, OpenRefresh
<1>3. RefreshInv /\ [RefreshNext]_refreshVars => RefreshInv'
  BY RefreshInvStep
<1>4. RefreshInv /\ [RefreshNext]_refreshVars => [RefreshLeases!LeasedNext]_RefreshLeases!leasedVars
  BY RefreshStepLeased
<1>5. QED
  BY <1>1, <1>2, <1>3, <1>4, PTL DEF RefreshSpec, RefreshesAreLeased, RefreshLeases!LeasedSpec

-----------------------------------------------------------------------------
(* InvestorAnalysis: a worker that has a row locked finds it running, and is  *)
(* the only one.                                                            *)
AnalystRow == {Free} \cup [at : {"leased", "locked", "calling"}, on : Analyses, month : Months]

AnalysisInv ==
    /\ analysisClock \in AnalysisTimes
    /\ analysis \in [Analyses -> AnalysisRow]
    /\ analyst \in [Analysts -> AnalystRow]
    /\ \A w \in Analysts : HasLock(w) => analysis[analyst[w].on].status = "running"
    /\ \A v, w \in Analysts :
          v # w /\ HasLock(v) /\ HasLock(w) => analyst[v].on # analyst[w].on

AnalysisPhase(a) ==
    IF analysis[a].status = "absent" THEN "absent"
    ELSE IF analysis[a].status = "ended" THEN "closed" ELSE "open"
AnalysisHolders(a) == {w \in Analysts : HasLock(w) /\ analyst[w].on = a}

(* The steps of the abstract table, in these terms.                          *)
LEMMA AnalysisTaken ==
    ASSUME NEW a \in Analyses, NEW w \in Analysts, AnalysisPhase(a) = "open",
           \A i \in Analyses : AnalysisPhase(i)' = AnalysisPhase(i) /\ analysis'[i].by = analysis[i].by,
           AnalysisHolders(a)' = {w},
           \A i \in Analyses \ {a} : AnalysisHolders(i)' = AnalysisHolders(i)
    PROVE  AnalysisLeases!LeasedNext
<1> DEFINE P == [i \in Analyses |-> AnalysisPhase(i)]
           H == [i \in Analyses |-> AnalysisHolders(i)]
           F == [i \in Analyses |-> analysis[i].by]
<1>1. H' = [H EXCEPT ![a] = {w}]
  OBVIOUS
<1>2. P' = P
  OBVIOUS
<1>3. F' = F
  OBVIOUS
<1>4. P[a] = "open"
  OBVIOUS
<1>5. AnalysisLeases!Take(a, w)
  BY <1>1, <1>2, <1>3, <1>4 DEF AnalysisLeases!Take, AnalysisPhase, AnalysisHolders
<1>6. QED
  BY <1>5 DEF AnalysisLeases!LeasedNext

LEMMA AnalysisAbandoned ==
    ASSUME NEW a \in Analyses, AnalysisPhase(a) = "open",
           \A i \in Analyses : AnalysisPhase(i)' = AnalysisPhase(i) /\ analysis'[i].by = analysis[i].by,
           AnalysisHolders(a)' = {},
           \A i \in Analyses \ {a} : AnalysisHolders(i)' = AnalysisHolders(i)
    PROVE  AnalysisLeases!LeasedNext
<1> DEFINE P == [i \in Analyses |-> AnalysisPhase(i)]
           H == [i \in Analyses |-> AnalysisHolders(i)]
           F == [i \in Analyses |-> analysis[i].by]
<1>1. H' = [H EXCEPT ![a] = {}]
  OBVIOUS
<1>2. P' = P
  OBVIOUS
<1>3. F' = F
  OBVIOUS
<1>4. P[a] = "open"
  OBVIOUS
<1>5. AnalysisLeases!Abandon(a)
  BY <1>1, <1>2, <1>3, <1>4 DEF AnalysisLeases!Abandon, AnalysisPhase, AnalysisHolders
<1>6. QED
  BY <1>5 DEF AnalysisLeases!LeasedNext

LEMMA AnalysisFinished ==
    ASSUME NEW a \in Analyses, NEW w \in AnalysisHolders(a), AnalysisPhase(a) = "open",
           AnalysisPhase(a)' = "closed", AnalysisHolders(a)' = {}, analysis'[a].by = w,
           \A i \in Analyses \ {a} :
              /\ AnalysisPhase(i)' = AnalysisPhase(i) /\ AnalysisHolders(i)' = AnalysisHolders(i)
              /\ analysis'[i].by = analysis[i].by
    PROVE  AnalysisLeases!LeasedNext
<1> DEFINE P == [i \in Analyses |-> AnalysisPhase(i)]
           H == [i \in Analyses |-> AnalysisHolders(i)]
           F == [i \in Analyses |-> analysis[i].by]
<1>1. P' = [P EXCEPT ![a] = "closed"]
  OBVIOUS
<1>2. H' = [H EXCEPT ![a] = {}]
  OBVIOUS
<1>3. F' = [F EXCEPT ![a] = w]
  OBVIOUS
<1>4. P[a] = "open" /\ w \in H[a]
  OBVIOUS
<1>5. AnalysisLeases!Finish(a, w)
  BY <1>1, <1>2, <1>3, <1>4 DEF AnalysisLeases!Finish, AnalysisPhase, AnalysisHolders
<1>6. w \in Analysts
  BY DEF AnalysisHolders
<1>7. QED
  BY <1>5, <1>6 DEF AnalysisLeases!LeasedNext

LEMMA AnalysisEntered ==
    ASSUME \A i \in Analyses :
              /\ \/ AnalysisPhase(i)' = AnalysisPhase(i)
                 \/ AnalysisPhase(i) = "absent" /\ AnalysisPhase(i)' = "open"
              /\ AnalysisHolders(i)' = AnalysisHolders(i) /\ analysis'[i].by = analysis[i].by
    PROVE  AnalysisLeases!LeasedNext
<1>1. AnalysisLeases!Enter
  BY DEF AnalysisLeases!Enter, AnalysisPhase, AnalysisHolders
<1>2. QED
  BY <1>1 DEF AnalysisLeases!LeasedNext

LEMMA AnalysisStays ==
    ASSUME \A i \in Analyses :
              /\ AnalysisPhase(i)' = AnalysisPhase(i) /\ AnalysisHolders(i)' = AnalysisHolders(i)
              /\ analysis'[i].by = analysis[i].by
    PROVE  UNCHANGED AnalysisLeases!leasedVars
  BY DEF AnalysisLeases!leasedVars, AnalysisPhase, AnalysisHolders

LEMMA AnalysisBegins ==
    ASSUME AnalysisInit PROVE AnalysisInv
<1>1. 0 \in AnalysisTimes
  BY AnalysisAssumption DEF AnalysisTimes
<1>2. MonthOf(0) = 0
  BY AnalysisAssumption DEF MonthOf
<1>3. 0 \in Months
  BY <1>1, <1>2 DEF Months
<1>4. QED
  BY <1>1, <1>3 DEF AnalysisInit, AnalysisInv, AnalysisRow, AnalystRow, HasLock, Free

(* A worker lets the row it has locked go: it ends the analysis, defers it, or *)
(* dies and leaves it as it is.                                             *)
LEMMA LockerFrees ==
    ASSUME AnalysisInv, NEW w \in Analysts, HasLock(w),
           NEW a \in Analyses, a = analyst[w].on,
           analyst' = [analyst EXCEPT ![w] = Free], UNCHANGED analysisClock,
           analysis' \in [Analyses -> AnalysisRow],
           \A i \in Analyses \ {a} : analysis'[i] = analysis[i]
    PROVE  /\ AnalysisInv'
           /\ AnalysisHolders(a) = {w} /\ AnalysisHolders(a)' = {}
           /\ AnalysisPhase(a) = "open"
           /\ \A i \in Analyses \ {a} :
                 /\ AnalysisHolders(i)' = AnalysisHolders(i)
                 /\ AnalysisPhase(i)' = AnalysisPhase(i) /\ analysis'[i].by = analysis[i].by
<1>1. analyst'[w] = Free /\ \A v \in Analysts \ {w} : analyst'[v] = analyst[v]
  BY DEF AnalysisInv
<1>2. ~HasLock(w)' /\ \A v \in Analysts \ {w} : HasLock(v)' <=> HasLock(v)
  BY <1>1 DEF HasLock, Free
<1>3. AnalysisHolders(a) = {w} /\ AnalysisHolders(a)' = {}
  BY <1>1, <1>2 DEF AnalysisInv, AnalysisHolders
<1>4. \A i \in Analyses \ {a} : AnalysisHolders(i)' = AnalysisHolders(i)
  BY <1>1, <1>2 DEF AnalysisHolders
<1>5. analyst' \in [Analysts -> AnalystRow]
  BY DEF AnalysisInv, AnalystRow
<1>6. \A v \in Analysts : HasLock(v) => analyst[v].on \in Analyses
  BY DEF AnalysisInv, AnalystRow, HasLock, Free
<1>7. \A v \in Analysts : HasLock(v)' => analysis'[analyst'[v].on].status = "running"
  BY <1>1, <1>2, <1>6 DEF AnalysisInv
<1>8. AnalysisInv'
  BY <1>1, <1>2, <1>5, <1>7 DEF AnalysisInv
<1>9. QED
  BY <1>3, <1>4, <1>8 DEF AnalysisInv, AnalysisPhase

(* A worker without a lock lets go, or remembers another row.                *)
LEMMA IdlerMoves ==
    ASSUME AnalysisInv, NEW w \in Analysts, ~HasLock(w), NEW row \in AnalystRow,
           row.at \in {"idle", "leased"},
           analyst' = [analyst EXCEPT ![w] = row],
           analysisClock' = analysisClock,
           analysis' \in [Analyses -> AnalysisRow],
           \A v \in Analysts : HasLock(v) => analysis'[analyst[v].on] = analysis[analyst[v].on]
    PROVE  AnalysisInv' /\ \A i \in Analyses : AnalysisHolders(i)' = AnalysisHolders(i)
<1>1. analyst'[w] = row /\ \A v \in Analysts \ {w} : analyst'[v] = analyst[v]
  BY DEF AnalysisInv
<1>2. ~HasLock(w)' /\ \A v \in Analysts \ {w} : HasLock(v)' <=> HasLock(v)
  BY <1>1 DEF HasLock
<1>3. \A i \in Analyses : AnalysisHolders(i)' = AnalysisHolders(i)
  BY <1>1, <1>2 DEF AnalysisHolders
<1>4. analyst' \in [Analysts -> AnalystRow]
  BY DEF AnalysisInv
<1>5. AnalysisInv'
  BY <1>1, <1>2, <1>4 DEF AnalysisInv
<1>6. QED
  BY <1>3, <1>5

LEMMA EnqueueEnters ==
    ASSUME AnalysisInv, NEW w \in Analysts, Enqueue(w)
    PROVE  AnalysisInv' /\ AnalysisLeases!LeasedNext
<1>1. \A i \in Analyses :
        /\ i \in Missing => analysis[i].status = "absent"
        /\ analysis'[i] = IF i \in Missing THEN [analysis[i] EXCEPT !.status = "pending"]
                          ELSE analysis[i]
  BY DEF Enqueue, Missing
<1>2. \A i \in Analyses :
        i \in Missing => analysis'[i] = [status |-> "pending", until |-> analysis[i].until,
                               deferred |-> analysis[i].deferred, by |-> analysis[i].by]
  BY <1>1 DEF AnalysisInv, AnalysisRow
<1>3. analysis' \in [Analyses -> AnalysisRow]
  <2>1. SUFFICES ASSUME NEW i \in Analyses PROVE analysis'[i] \in AnalysisRow
    BY DEF Enqueue
  <2>2. CASE i \in Missing
    <3>1. /\ analysis[i].until \in Nat /\ analysis[i].deferred \in Months
          /\ analysis[i].by \in Analysts \cup {Nobody}
      BY DEF AnalysisInv, AnalysisRow
    <3>2. [status |-> "pending", until |-> analysis[i].until,
            deferred |-> analysis[i].deferred, by |-> analysis[i].by] \in AnalysisRow
      BY <3>1 DEF AnalysisRow
    <3>3. QED
      BY <1>2, <2>2, <3>2
  <2>3. CASE i \notin Missing
    BY <1>1, <2>3 DEF AnalysisInv
  <2>4. QED
    BY <2>2, <2>3
<1>4. UNCHANGED <<analyst, analysisClock>>
  BY DEF Enqueue
<1>5. \A v \in Analysts : HasLock(v) =>
        /\ analyst[v].on \in Analyses
        /\ analysis'[analyst[v].on] = analysis[analyst[v].on]
  <2>1. SUFFICES ASSUME NEW v \in Analysts, HasLock(v)
                 PROVE  analyst[v].on \in Analyses /\ analyst[v].on \notin Missing
    BY <1>1
  <2>2. analyst[v].on \in Analyses
    BY <2>1 DEF AnalysisInv, AnalystRow, HasLock, Free
  <2>3. QED
    BY <1>1, <2>1, <2>2 DEF AnalysisInv
<1>6. AnalysisInv'
  BY <1>3, <1>4, <1>5 DEF AnalysisInv, HasLock
<1>7. \A i \in Analyses : AnalysisHolders(i)' = AnalysisHolders(i)
  BY <1>4 DEF AnalysisHolders, HasLock
<1>8. \A i \in Analyses :
        /\ \/ AnalysisPhase(i)' = AnalysisPhase(i)
           \/ AnalysisPhase(i) = "absent" /\ AnalysisPhase(i)' = "open"
        /\ analysis'[i].by = analysis[i].by
  BY <1>1, <1>2 DEF AnalysisPhase
<1>9. QED
  BY <1>6, <1>7, <1>8, AnalysisEntered

LEMMA MonthOfClock ==
    ASSUME AnalysisInv
    PROVE  MonthOf(analysisClock) \in Months /\ analysisClock + AnalysisLease \in Nat
  BY AnalysisAssumption DEF AnalysisInv, Months, AnalysisTimes

LEMMA AnalysisFields ==
    ASSUME AnalysisInv
    PROVE  \A a \in Analyses :
              analysis[a] = [status |-> analysis[a].status, until |-> analysis[a].until,
                             deferred |-> analysis[a].deferred, by |-> analysis[a].by]
  BY DEF AnalysisInv, AnalysisRow

LEMMA LeaseAnalysisStays ==
    ASSUME AnalysisInv, NEW w \in Analysts, LeaseAnalysis(w)
    PROVE  AnalysisInv' /\ UNCHANGED AnalysisLeases!leasedVars
<1>1. PICK a \in Analyses :
        /\ Available(a) /\ ~Locked(a)
        /\ analysis' = [analysis EXCEPT ![a].status = "running",
                                        ![a].until = analysisClock + AnalysisLease]
        /\ analyst' = [analyst EXCEPT ![w] =
                          [at |-> "leased", on |-> a, month |-> MonthOf(analysisClock)]]
  BY DEF LeaseAnalysis
<1>2. /\ analysis'[a] = [status |-> "running", until |-> analysisClock + AnalysisLease,
                         deferred |-> analysis[a].deferred, by |-> analysis[a].by]
      /\ \A i \in Analyses \ {a} : analysis'[i] = analysis[i]
  <2>1. \A i \in Analyses \ {a} : analysis'[i] = analysis[i]
    BY <1>1 DEF AnalysisInv
  <2>2. analysis'[a] = [analysis[a] EXCEPT !.status = "running",
                                           !.until = analysisClock + AnalysisLease]
    BY <1>1 DEF AnalysisInv
  <2>3. QED
    BY <2>1, <2>2, AnalysisFields
<1>3. analysis' \in [Analyses -> AnalysisRow]
  <2>1. analysis'[a] \in AnalysisRow
    BY <1>2, MonthOfClock DEF AnalysisInv, AnalysisRow
  <2>2. \A i \in Analyses : analysis'[i] \in AnalysisRow
    BY <1>2, <2>1 DEF AnalysisInv
  <2>3. QED
    BY <1>1, <2>2 DEF AnalysisInv
<1>4. [at |-> "leased", on |-> a, month |-> MonthOf(analysisClock)] \in AnalystRow
  BY MonthOfClock DEF AnalystRow
<1>5. ~HasLock(w) /\ analysisClock' = analysisClock
  BY DEF LeaseAnalysis, HasLock, Free
<1>6. \A v \in Analysts : HasLock(v) => analysis'[analyst[v].on] = analysis[analyst[v].on]
  <2>1. \A v \in Analysts : HasLock(v) => analyst[v].on \in Analyses \ {a}
    BY <1>1 DEF AnalysisInv, AnalystRow, HasLock, Free, Locked
  <2>2. QED
    BY <1>2, <2>1
<1>7. AnalysisInv' /\ \A i \in Analyses : AnalysisHolders(i)' = AnalysisHolders(i)
  BY <1>1, <1>3, <1>4, <1>5, <1>6, IdlerMoves
<1>8. \A i \in Analyses : AnalysisPhase(i)' = AnalysisPhase(i) /\ analysis'[i].by = analysis[i].by
  <2>1. analysis[a].status \in {"pending", "budget_deferred", "running"}
    BY <1>1 DEF Available
  <2>2. AnalysisPhase(a)' = AnalysisPhase(a) /\ analysis'[a].by = analysis[a].by
    BY <1>2, <2>1 DEF AnalysisPhase
  <2>3. QED
    BY <1>2, <2>2 DEF AnalysisPhase
<1>9. QED
  BY <1>7, <1>8, AnalysisStays

LEMMA LockRowTakes ==
    ASSUME AnalysisInv, NEW w \in Analysts, LockRow(w)
    PROVE  AnalysisInv' /\ (AnalysisLeases!LeasedNext \/ UNCHANGED AnalysisLeases!leasedVars)
<1>1. /\ ~HasLock(w) /\ analyst[w] \in [at : {"leased", "locked", "calling"}, on : Analyses, month : Months]
      /\ UNCHANGED <<analysisClock, analysis>>
  BY DEF LockRow, HasLock, AnalysisInv, AnalystRow, Free
<1>2. PICK a \in Analyses : a = analyst[w].on
  BY <1>1
<1>3. CASE ~NotEnded(a)
  <2>1. analyst' = [analyst EXCEPT ![w] = Free]
    BY <1>2, <1>3 DEF LockRow
  <2>2. Free \in AnalystRow /\ Free.at \in {"idle", "leased"}
    BY DEF AnalystRow, Free
  <2>3. AnalysisInv' /\ \A i \in Analyses : AnalysisHolders(i)' = AnalysisHolders(i)
    BY <1>1, <2>1, <2>2, IdlerMoves DEF AnalysisInv
  <2>4. QED
    BY <1>1, <2>3, AnalysisStays DEF AnalysisPhase
<1>4. CASE NotEnded(a)
  <2>1. /\ analyst'[w] = [at |-> "locked", on |-> a, month |-> analyst[w].month]
        /\ \A v \in Analysts \ {w} : analyst'[v] = analyst[v]
    BY <1>1, <1>2, <1>4 DEF LockRow, AnalysisInv
  <2>2. analyst' \in [Analysts -> AnalystRow]
    <3>1. analyst'[w] \in AnalystRow
      BY <1>1, <2>1 DEF AnalystRow
    <3>2. QED
      BY <2>1, <3>1 DEF LockRow, AnalysisInv
  <2>3. HasLock(w)' /\ \A v \in Analysts \ {w} : HasLock(v)' <=> HasLock(v)
    BY <2>1 DEF HasLock
  <2>4. \A v \in Analysts : HasLock(v) => analyst[v].on # a
    BY <1>2 DEF LockRow, Locked
  <2>5. AnalysisInv'
    BY <1>1, <1>4, <2>1, <2>2, <2>3, <2>4 DEF AnalysisInv, NotEnded
  <2>6. /\ AnalysisHolders(a)' = {w}
        /\ \A i \in Analyses \ {a} : AnalysisHolders(i)' = AnalysisHolders(i)
    BY <1>1, <2>1, <2>3, <2>4 DEF AnalysisHolders
  <2>7. AnalysisPhase(a) = "open"
    BY <1>4 DEF AnalysisPhase, NotEnded
  <2>8. \A i \in Analyses : AnalysisPhase(i)' = AnalysisPhase(i) /\ analysis'[i].by = analysis[i].by
    BY <1>1 DEF AnalysisPhase
  <2>9. QED
    BY <2>5, <2>6, <2>7, <2>8, AnalysisTaken
<1>5. QED
  BY <1>3, <1>4

(* An analysis ends, by the worker that has its row locked.                  *)
LEMMA LockerEnds ==
    ASSUME AnalysisInv, NEW w \in Analysts, HasLock(w), analysis' = Ended(analyst[w].on, w),
           analyst' = [analyst EXCEPT ![w] = Free], UNCHANGED analysisClock
    PROVE  AnalysisInv' /\ AnalysisLeases!LeasedNext
<1>1. PICK a \in Analyses : a = analyst[w].on
  BY DEF AnalysisInv, AnalystRow, HasLock, Free
<1>2. /\ analysis'[a] = [status |-> "ended", until |-> analysis[a].until,
                         deferred |-> analysis[a].deferred, by |-> w]
      /\ \A i \in Analyses \ {a} : analysis'[i] = analysis[i]
  BY <1>1 DEF Ended, AnalysisInv, AnalysisRow
<1>3. analysis' \in [Analyses -> AnalysisRow]
  <2>1. analysis'[a] \in AnalysisRow
    BY <1>2 DEF AnalysisInv, AnalysisRow
  <2>2. \A i \in Analyses : analysis'[i] \in AnalysisRow
    BY <1>2, <2>1 DEF AnalysisInv
  <2>3. QED
    BY <2>2 DEF Ended, AnalysisInv
<1>4. AnalysisPhase(a)' = "closed" /\ analysis'[a].by = w
  BY <1>2 DEF AnalysisPhase
<1>5. /\ AnalysisInv'
      /\ AnalysisHolders(a) = {w} /\ AnalysisHolders(a)' = {} /\ AnalysisPhase(a) = "open"
      /\ \A i \in Analyses \ {a} :
            /\ AnalysisHolders(i)' = AnalysisHolders(i)
            /\ AnalysisPhase(i)' = AnalysisPhase(i) /\ analysis'[i].by = analysis[i].by
  BY <1>1, <1>2, <1>3, <1>4, LockerFrees, LockerFrees
<1>6. QED
  BY <1>4, <1>5, AnalysisFinished

LEMMA DeferAbandons ==
    ASSUME AnalysisInv, NEW w \in Analysts, DeferAnalysis(w)
    PROVE  AnalysisInv' /\ AnalysisLeases!LeasedNext
<1>0. HasLock(w)
  BY DEF DeferAnalysis, HasLock
<1>1. PICK a \in Analyses : a = analyst[w].on
  BY <1>0 DEF AnalysisInv, AnalystRow, HasLock, Free
<1>2. /\ analysis' = [analysis EXCEPT ![a].status = "budget_deferred",
                                      ![a].deferred = MonthOf(analysisClock)]
      /\ analyst' = [analyst EXCEPT ![w] = Free] /\ UNCHANGED analysisClock
  BY <1>1 DEF DeferAnalysis
<1>3. /\ analysis'[a] = [status |-> "budget_deferred", until |-> analysis[a].until,
                         deferred |-> MonthOf(analysisClock), by |-> analysis[a].by]
      /\ \A i \in Analyses \ {a} : analysis'[i] = analysis[i]
  <2>1. \A i \in Analyses \ {a} : analysis'[i] = analysis[i]
    BY <1>2 DEF AnalysisInv
  <2>2. analysis'[a] = [analysis[a] EXCEPT !.status = "budget_deferred",
                                           !.deferred = MonthOf(analysisClock)]
    BY <1>2 DEF AnalysisInv
  <2>3. QED
    BY <2>1, <2>2, AnalysisFields
<1>4. analysis' \in [Analyses -> AnalysisRow]
  <2>1. analysis'[a] \in AnalysisRow
    BY <1>3, MonthOfClock DEF AnalysisInv, AnalysisRow
  <2>2. \A i \in Analyses : analysis'[i] \in AnalysisRow
    BY <1>3, <2>1 DEF AnalysisInv
  <2>3. QED
    BY <1>2, <2>2 DEF AnalysisInv
<1>5. AnalysisPhase(a)' = "open" /\ analysis'[a].by = analysis[a].by
  BY <1>3 DEF AnalysisPhase
<1>6. /\ AnalysisInv'
      /\ AnalysisHolders(a) = {w} /\ AnalysisHolders(a)' = {} /\ AnalysisPhase(a) = "open"
      /\ \A i \in Analyses \ {a} :
            /\ AnalysisHolders(i)' = AnalysisHolders(i)
            /\ AnalysisPhase(i)' = AnalysisPhase(i) /\ analysis'[i].by = analysis[i].by
  BY <1>0, <1>1, <1>2, <1>3, <1>4, LockerFrees, LockerFrees
<1>7. QED
  BY <1>5, <1>6, AnalysisAbandoned

LEMMA CallStays ==
    ASSUME AnalysisInv, NEW w \in Analysts, CallModel(w)
    PROVE  AnalysisInv' /\ UNCHANGED AnalysisLeases!leasedVars
<1>1. /\ analyst[w] \in [at : {"leased", "locked", "calling"}, on : Analyses, month : Months]
      /\ HasLock(w) /\ UNCHANGED <<analysisClock, analysis>>
  BY DEF CallModel, HasLock, AnalysisInv, AnalystRow, Free
<1>2. /\ analyst'[w] = [at |-> "calling", on |-> analyst[w].on, month |-> analyst[w].month]
      /\ \A v \in Analysts \ {w} : analyst'[v] = analyst[v]
  BY <1>1 DEF CallModel, AnalysisInv
<1>3. analyst' \in [Analysts -> AnalystRow]
  <2>1. analyst'[w] \in AnalystRow
    BY <1>1, <1>2 DEF AnalystRow
  <2>2. QED
    BY <1>2, <2>1 DEF CallModel, AnalysisInv
<1>4. \A v \in Analysts : (HasLock(v)' <=> HasLock(v)) /\ (HasLock(v) => analyst'[v].on = analyst[v].on)
  BY <1>1, <1>2 DEF HasLock
<1>5. AnalysisInv'
  BY <1>1, <1>3, <1>4 DEF AnalysisInv
<1>6. \A i \in Analyses : AnalysisHolders(i)' = AnalysisHolders(i)
  BY <1>4 DEF AnalysisHolders
<1>7. QED
  BY <1>1, <1>5, <1>6, AnalysisStays DEF AnalysisPhase

LEMMA AnalystCrashAbandons ==
    ASSUME AnalysisInv, NEW w \in Analysts, AnalystCrash(w)
    PROVE  AnalysisInv' /\ (AnalysisLeases!LeasedNext \/ UNCHANGED AnalysisLeases!leasedVars)
<1>1. analyst' = [analyst EXCEPT ![w] = Free] /\ UNCHANGED <<analysisClock, analysis>>
  BY DEF AnalystCrash
<1>2. analysis' \in [Analyses -> AnalysisRow]
  BY <1>1 DEF AnalysisInv
<1>3. CASE HasLock(w)
  <2>1. PICK a \in Analyses : a = analyst[w].on
    BY <1>3 DEF AnalysisInv, AnalystRow, HasLock, Free
  <2>2. \A i \in Analyses : AnalysisPhase(i)' = AnalysisPhase(i) /\ analysis'[i].by = analysis[i].by
    BY <1>1 DEF AnalysisPhase
  <2>3. QED
    BY <1>1, <1>2, <1>3, <2>1, <2>2, LockerFrees, AnalysisAbandoned
<1>4. CASE ~HasLock(w)
  <2>1. Free \in AnalystRow /\ Free.at \in {"idle", "leased"}
    BY DEF AnalystRow, Free
  <2>2. AnalysisInv' /\ \A i \in Analyses : AnalysisHolders(i)' = AnalysisHolders(i)
    BY <1>1, <1>2, <1>4, <2>1, IdlerMoves
  <2>3. QED
    BY <1>1, <2>2, AnalysisStays DEF AnalysisPhase
<1>5. QED
  BY <1>3, <1>4

LEMMA AnalysisStepLeased ==
    ASSUME AnalysisInv, [AnalysisNext]_analysisVars
    PROVE  AnalysisInv' /\ [AnalysisLeases!LeasedNext]_AnalysisLeases!leasedVars
<1>1. ASSUME UNCHANGED <<analysis, analyst>>, analysisClock' \in AnalysisTimes
      PROVE  AnalysisInv' /\ UNCHANGED AnalysisLeases!leasedVars
  BY <1>1, AnalysisStays DEF AnalysisInv, HasLock, AnalysisPhase, AnalysisHolders
<1>2. CASE UNCHANGED analysisVars
  BY <1>1, <1>2 DEF analysisVars, AnalysisInv
<1>3. CASE AnalysisTick
  BY <1>1, <1>3, AnalysisAssumption DEF AnalysisTick, AnalysisInv, AnalysisTimes
<1>4. ASSUME NEW e \in Events, ChangeEvent(e)
      PROVE  AnalysisInv' /\ UNCHANGED AnalysisLeases!leasedVars
  BY <1>1, <1>4 DEF ChangeEvent, AnalysisInv
<1>5. ASSUME NEW w \in Analysts, NotEligible(w) \/ RecordResult(w)
      PROVE  AnalysisInv' /\ AnalysisLeases!LeasedNext
  BY <1>5, LockerEnds DEF NotEligible, RecordResult, HasLock
<1>6. QED
  BY <1>2, <1>3, <1>4, <1>5, EnqueueEnters, LeaseAnalysisStays, LockRowTakes, DeferAbandons,
     CallStays, AnalystCrashAbandons DEF AnalysisNext, AnalystStep

(* An analysis is ended at most once, by the worker that has its row locked,  *)
(* also when an expired lease was given to several workers.                  *)
(* (run_investor_analysis_worker_once, _lease_next_analysis)                 *)
THEOREM AnalysesImplementLeases == AnalysisSpec => AnalysesAreLeased
<1>1. AnalysisInit => AnalysisInv
  BY AnalysisBegins
<1>2. AnalysisInit => AnalysisLeases!LeasedInit
  BY DEF AnalysisInit, AnalysisLeases!LeasedInit, HasLock, Free
<1>3. AnalysisInv /\ [AnalysisNext]_analysisVars =>
        AnalysisInv' /\ [AnalysisLeases!LeasedNext]_AnalysisLeases!leasedVars
  BY AnalysisStepLeased
<1>4. QED
  BY <1>1, <1>2, <1>3, PTL DEF AnalysisSpec, AnalysesAreLeased, AnalysisLeases!LeasedSpec

-----------------------------------------------------------------------------
(* InvestorAnalysis: the month's tokens.  Calls under way are counted with    *)
(* the tokens recorded in the present month; they never take more room than  *)
(* a call for each worker, of which one's projection fits in the limit.       *)

InCall == {w \in Analysts : analyst[w].at = "calling"}
PresentMonth == MonthOf(analysisClock)
MonthRoom == (TokenLimit - ProjectedTokens) + CallTokens * Cardinality(Analysts)

TokenInv ==
    /\ tokens \in [Months -> Nat] /\ spent \in [Months -> Nat] /\ unrecorded \in [Months -> Nat]
    /\ \A w \in Analysts : HasLock(w) => analyst[w].month <= PresentMonth
    /\ \A w \in Analysts : analyst[w].at = "leased" => analyst[w].month <= PresentMonth
    /\ \A m \in Months : m > PresentMonth => tokens[m] = 0
    /\ \A m \in Months : spent[m] <= tokens[m] + CallTokens * unrecorded[m]
    /\ \A m \in Months : tokens[m] <= MonthRoom
    /\ tokens[PresentMonth] + CallTokens * Cardinality(InCall) <= MonthRoom
    /\ InCall # {} => ProjectedTokens <= TokenLimit

LEMMA CallsCost ==
    ASSUME NEW a \in Nat, NEW b \in Nat
    PROVE  /\ CallTokens * a \in Nat
           /\ CallTokens * (a + 1) = CallTokens * a + CallTokens
           /\ CallTokens * (a + b) = CallTokens * a + CallTokens * b
           /\ a <= b => CallTokens * a <= CallTokens * b
<1>1. CallTokens \in Nat
  BY AnalysisAssumption
<1>2. CallTokens * a \in Nat /\ CallTokens * b \in Nat
  BY <1>1
<1>3. CallTokens * (a + 1) = CallTokens * a + CallTokens
  BY <1>1
<1>4. CallTokens * (a + b) = CallTokens * a + CallTokens * b
  BY <1>1
<1>5. ASSUME a <= b PROVE CallTokens * a <= CallTokens * b
  <2>1. PICK d \in Nat : b = a + d
    <3>1. b - a \in Nat /\ b = a + (b - a)
      BY <1>5
    <3>2. QED
      BY <3>1
  <2>2. CallTokens * b = CallTokens * a + CallTokens * d
    BY <1>1, <2>1
  <2>3. CallTokens * d \in Nat
    BY <1>1
  <2>4. QED
    BY <1>2, <2>2, <2>3
<1>6. QED
  BY <1>2, <1>3, <1>4, <1>5

LEMMA AnalystsCounted ==
    /\ Cardinality(Analysts) \in Nat /\ Cardinality(Analysts) >= 1
    /\ \A S : S \subseteq Analysts => /\ IsFiniteSet(S) /\ Cardinality(S) \in Nat
                                     /\ Cardinality(S) <= Cardinality(Analysts)
<1>1. IsFiniteSet(Analysts) /\ Analysts # {}
  BY AnalysisAssumption
<1>2. Cardinality(Analysts) \in Nat /\ Cardinality(Analysts) # 0
  BY <1>1, FS_CardinalityType, FS_EmptySet
<1>3. ASSUME NEW S, S \subseteq Analysts
      PROVE  IsFiniteSet(S) /\ Cardinality(S) \in Nat /\ Cardinality(S) <= Cardinality(Analysts)
  BY <1>1, <1>3, FS_Subset, FS_CardinalityType
<1>4. QED
  BY <1>2, <1>3

LEMMA MonthRoomType ==
    /\ MonthRoom \in Nat
    /\ TokenLimit \in Nat /\ CallTokens \in Nat /\ ProjectedTokens \in Nat
    /\ \A n \in Nat : n <= Cardinality(Analysts) =>
          (TokenLimit - ProjectedTokens) + CallTokens * n <= MonthRoom
<1>1. /\ TokenLimit \in Nat /\ CallTokens \in Nat /\ ProjectedTokens \in Nat
      /\ ProjectedTokens <= CallTokens
  BY AnalysisAssumption
<1>2. Cardinality(Analysts) \in Nat /\ 1 <= Cardinality(Analysts)
  BY AnalystsCounted
<1>3. CallTokens * Cardinality(Analysts) \in Nat
  BY <1>2, CallsCost
<1>4. CallTokens * 1 <= CallTokens * Cardinality(Analysts) /\ CallTokens * 1 = CallTokens
  BY <1>1, <1>2, CallsCost
<1>5. MonthRoom \in Nat
  BY <1>1, <1>3, <1>4 DEF MonthRoom
<1>6. ASSUME NEW n \in Nat, n <= Cardinality(Analysts)
      PROVE  (TokenLimit - ProjectedTokens) + CallTokens * n <= MonthRoom
  <2>1. CallTokens * n <= CallTokens * Cardinality(Analysts) /\ CallTokens * n \in Nat
    BY <1>2, <1>6, CallsCost
  <2>2. QED
    BY <1>1, <1>3, <2>1 DEF MonthRoom
<1>7. QED
  BY <1>1, <1>5, <1>6

LEMMA MonthsFinite == IsFiniteSet(Months) /\ Months \subseteq Nat
<1>1. AnalysisClockEnd \in Nat /\ MonthLength \in Nat \ {0}
  BY AnalysisAssumption
<1>2. IsFiniteSet(AnalysisTimes)
  BY <1>1, FS_Interval DEF AnalysisTimes
<1>3. [t \in AnalysisTimes |-> MonthOf(t)] \in Surjection(AnalysisTimes, Months)
  BY DEF Surjection, Months
<1>4. IsFiniteSet(Months)
  BY <1>2, <1>3, FS_Surjection
<1>5. \A t \in AnalysisTimes : MonthOf(t) \in Nat
  BY <1>1, QuotientBounded DEF MonthOf, AnalysisTimes
<1>6. QED
  BY <1>4, <1>5 DEF Months

(* The sum that a worker reads covers the present month.                     *)
LEMMA SumCoversMonth ==
    ASSUME tokens \in [Months -> Nat], NEW m, NEW now \in Months, now >= m
    PROVE  MonthlyTokens(m) \in Nat /\ tokens[now] <= MonthlyTokens(m)
<1> DEFINE S == {x \in Months : x >= m}
           Part(n) == {n} \X (1 .. tokens[n])
           T == {Part(n) : n \in S}
<1>1. ASSUME NEW n \in Months
      PROVE  IsFiniteSet(Part(n)) /\ Cardinality(Part(n)) = tokens[n]
  <2>1. tokens[n] \in Nat
    OBVIOUS
  <2>2. IsFiniteSet(1 .. tokens[n]) /\ Cardinality(1 .. tokens[n]) = tokens[n]
    BY <2>1, FS_Interval
  <2>3. IsFiniteSet({n}) /\ Cardinality({n}) = 1
    BY FS_Singleton
  <2>4. QED
    BY <2>1, <2>2, <2>3, FS_Product
<1>2. IsFiniteSet(S)
  BY MonthsFinite, FS_Subset
<1>3. [n \in S |-> Part(n)] \in Surjection(S, T)
  BY DEF Surjection
<1>4. IsFiniteSet(T)
  BY <1>2, <1>3, FS_Surjection
<1>5. \A X \in T : IsFiniteSet(X)
  BY <1>1
<1>6. IsFiniteSet(UNION T)
  BY <1>4, <1>5, FS_UNION
<1>7. Part(now) \subseteq UNION T
  OBVIOUS
<1>8. Cardinality(Part(now)) <= Cardinality(UNION T) /\ Cardinality(UNION T) \in Nat
  BY <1>6, <1>7, FS_Subset, FS_CardinalityType
<1>9. MonthlyTokens(m) = Cardinality(UNION T)
  BY DEF MonthlyTokens
<1>10. QED
  BY <1>1, <1>8, <1>9

LEMMA CallsCounted ==
    ASSUME AnalysisInv
    PROVE  /\ InCall \subseteq Analysts /\ IsFiniteSet(InCall)
           /\ Cardinality(InCall) \in Nat /\ Cardinality(InCall) <= Cardinality(Analysts)
           /\ CallTokens * Cardinality(InCall) \in Nat
<1>1. InCall \subseteq Analysts
  BY DEF InCall
<1>2. QED
  BY <1>1, AnalystsCounted, CallsCost

LEMMA TokensBegin ==
    ASSUME AnalysisInit PROVE TokenInv
<1>1. InCall = {}
  BY DEF AnalysisInit, InCall, Free
<1>2. Cardinality(InCall) = 0
  BY <1>1, FS_EmptySet
<1>3. CallTokens * 0 = 0
  BY MonthRoomType
<1>4. PresentMonth \in Months
  BY AnalysisBegins, MonthOfClock DEF PresentMonth
<1>5. QED
  BY <1>1, <1>2, <1>3, <1>4, MonthRoomType DEF AnalysisInit, TokenInv, HasLock, Free

(* A step that neither begins nor ends a call, nor lets time pass.            *)
LEMMA NoCallTokens ==
    ASSUME AnalysisInv, TokenInv, UNCHANGED <<analysisClock, tokens, spent, unrecorded>>,
           NEW w \in Analysts, analyst[w].at # "calling",
           \A v \in Analysts \ {w} : analyst'[v] = analyst[v],
           analyst'[w].at \in {"idle", "leased", "locked"},
           analyst'[w].at \in {"leased", "locked"} => analyst'[w].month <= PresentMonth
    PROVE  TokenInv'
<1>1. analyst'[w].at # "calling"
  OBVIOUS
<1>2. InCall' = InCall
  BY <1>1 DEF InCall
<1>3. PresentMonth' = PresentMonth
  BY DEF PresentMonth
<1>4. \A v \in Analysts : HasLock(v)' \/ analyst'[v].at = "leased" => analyst'[v].month <= PresentMonth
  BY DEF TokenInv, HasLock
<1>5. QED
  BY <1>2, <1>3, <1>4 DEF TokenInv

LEMMA AnalystsUnmovedTokens ==
    ASSUME TokenInv, UNCHANGED <<analysisClock, tokens, spent, unrecorded, analyst>>
    PROVE  TokenInv'
  BY DEF TokenInv, InCall, PresentMonth, HasLock

(* A call begins after its tokens were found to fit beside those recorded:    *)
(* the others under way are at most all workers but this one.                *)
LEMMA CallFits ==
    ASSUME AnalysisInv, TokenInv, NEW w \in Analysts, CallModel(w)
    PROVE  TokenInv'
<1>1. analyst[w].at = "locked" /\ HasLock(w) /\ w \notin InCall
  BY DEF CallModel, HasLock, InCall
<1>2. /\ analyst'[w] = [analyst[w] EXCEPT !.at = "calling"]
      /\ \A v \in Analysts \ {w} : analyst'[v] = analyst[v]
      /\ UNCHANGED <<analysisClock, tokens, spent, unrecorded>>
  BY DEF CallModel, AnalysisInv
<1>3. /\ analyst'[w].at = "calling" /\ analyst'[w].month = analyst[w].month
  <2>1. analyst[w] \in [at : {"leased", "locked", "calling"}, on : Analyses, month : Months]
    BY <1>1 DEF AnalysisInv, AnalystRow, Free
  <2>2. QED
    BY <1>2, <2>1
<1>4. InCall' = InCall \cup {w}
  BY <1>2, <1>3 DEF InCall
<1>5. Cardinality(InCall') = Cardinality(InCall) + 1
  BY <1>1, <1>4, CallsCounted, FS_AddElement
<1>6. Cardinality(InCall') \in Nat /\ Cardinality(InCall') <= Cardinality(Analysts)
  <2>1. InCall' \subseteq Analysts
    BY <1>4, CallsCounted
  <2>2. QED
    BY <2>1, AnalystsCounted
<1>7. PresentMonth \in Months /\ PresentMonth' = PresentMonth
  BY <1>2, MonthOfClock DEF PresentMonth
<1>8. MonthlyTokens(analyst[w].month) + ProjectedTokens <= TokenLimit
  BY DEF CallModel, Affordable
<1>9. /\ MonthlyTokens(analyst[w].month) \in Nat
      /\ tokens[PresentMonth] <= MonthlyTokens(analyst[w].month)
  <2>1. PresentMonth >= analyst[w].month
    <3>1. analyst[w].month <= PresentMonth
      BY <1>1 DEF TokenInv
    <3>2. QED
      BY <3>1
  <2>2. QED
    BY <1>7, <2>1, SumCoversMonth DEF TokenInv
<1>10. tokens[PresentMonth] \in Nat
  BY <1>7 DEF TokenInv
<1>11. ProjectedTokens <= TokenLimit /\ tokens[PresentMonth] + ProjectedTokens <= TokenLimit
  BY <1>8, <1>9, <1>10, MonthRoomType
<1>12. tokens[PresentMonth] + CallTokens * Cardinality(InCall') <= MonthRoom
  <2>1. (TokenLimit - ProjectedTokens) + CallTokens * Cardinality(InCall') <= MonthRoom
    BY <1>6, MonthRoomType
  <2>2. CallTokens * Cardinality(InCall') \in Nat
    BY <1>6, CallsCost
  <2>3. QED
    BY <1>10, <1>11, <2>1, <2>2, MonthRoomType
<1>13. \A v \in Analysts : HasLock(v)' \/ analyst'[v].at = "leased" => analyst'[v].month <= PresentMonth
  BY <1>1, <1>2, <1>3 DEF TokenInv, HasLock
<1>14. QED
  BY <1>2, <1>7, <1>11, <1>12, <1>13 DEF TokenInv

(* A call that ends makes room for the tokens it has cost.                   *)
LEMMA CallMadeRoom ==
    ASSUME AnalysisInv, TokenInv, NEW w \in InCall, analyst' = [analyst EXCEPT ![w] = Free],
           NEW used \in 0 .. CallTokens
    PROVE  /\ InCall' \subseteq InCall
           /\ CallTokens * Cardinality(InCall') + used <= CallTokens * Cardinality(InCall)
           /\ CallTokens * Cardinality(InCall') \in Nat /\ CallTokens * Cardinality(InCall) \in Nat
           /\ \A v \in Analysts :
                 HasLock(v)' \/ analyst'[v].at = "leased" => analyst'[v].month <= PresentMonth
<1>1. w \in Analysts
  BY DEF InCall
<1>2. analyst'[w] = Free /\ \A v \in Analysts \ {w} : analyst'[v] = analyst[v]
  BY <1>1 DEF AnalysisInv
<1>3. InCall' = InCall \ {w}
  BY <1>1, <1>2 DEF InCall, Free
<1>4. Cardinality(InCall') = Cardinality(InCall) - 1 /\ Cardinality(InCall') \in Nat
  BY <1>3, CallsCounted, FS_RemoveElement, FS_CardinalityType
<1>5. /\ CallTokens * Cardinality(InCall') \in Nat
      /\ CallTokens * (Cardinality(InCall') + 1) = CallTokens * Cardinality(InCall') + CallTokens
  BY <1>4, CallsCost
<1>6. Cardinality(InCall') + 1 = Cardinality(InCall)
  BY <1>4, CallsCounted
<1>7. CallTokens * Cardinality(InCall) = CallTokens * Cardinality(InCall') + CallTokens
  BY <1>5, <1>6
<1>8. \A v \in Analysts : HasLock(v)' \/ analyst'[v].at = "leased" => analyst'[v].month <= PresentMonth
  BY <1>1, <1>2 DEF TokenInv, HasLock, Free
<1>9. QED
  BY <1>3, <1>5, <1>7, <1>8, MonthRoomType

LEMMA ResultFits ==
    ASSUME AnalysisInv, TokenInv, NEW w \in Analysts, RecordResult(w)
    PROVE  TokenInv'
<1>1. w \in InCall /\ analyst' = [analyst EXCEPT ![w] = Free] /\ UNCHANGED analysisClock
  BY DEF RecordResult, InCall
<1>2. PresentMonth \in Months /\ PresentMonth' = PresentMonth
  BY <1>1, MonthOfClock DEF PresentMonth
<1>3. PICK used \in 0 .. CallTokens :
        /\ spent' = [spent EXCEPT ![PresentMonth] = @ + used]
        /\ \/ /\ tokens' = [tokens EXCEPT ![PresentMonth] = @ + used]
              /\ UNCHANGED unrecorded
           \/ /\ \E booked \in 0 .. used - 1 :
                    tokens' = [tokens EXCEPT ![PresentMonth] = @ + booked]
              /\ Unrecorded(PresentMonth)
  BY DEF RecordResult, PresentMonth
<1>4. PICK booked \in 0 .. used :
        /\ tokens' = [tokens EXCEPT ![PresentMonth] = @ + booked]
        /\ \/ booked = used /\ UNCHANGED unrecorded
           \/ unrecorded' = [unrecorded EXCEPT ![PresentMonth] = @ + 1]
  <2>1. used \in Nat /\ used \in 0 .. used /\ 0 .. used - 1 \subseteq 0 .. used
    BY MonthRoomType
  <2>2. QED
    BY <1>3, <2>1 DEF Unrecorded
<1>5. /\ used \in Nat /\ used <= CallTokens /\ booked \in Nat /\ booked <= used
      /\ booked \in 0 .. CallTokens
  BY MonthRoomType
<1>6. \A m \in Months : /\ tokens[m] \in Nat /\ spent[m] \in Nat /\ unrecorded[m] \in Nat
                        /\ CallTokens * unrecorded[m] \in Nat
                        /\ CallTokens * (unrecorded[m] + 1) = CallTokens * unrecorded[m] + CallTokens
  BY CallsCost DEF TokenInv
<1>7. /\ tokens' \in [Months -> Nat] /\ spent' \in [Months -> Nat]
      /\ tokens'[PresentMonth] = tokens[PresentMonth] + booked
      /\ spent'[PresentMonth] = spent[PresentMonth] + used
      /\ \A m \in Months \ {PresentMonth} : tokens'[m] = tokens[m] /\ spent'[m] = spent[m]
  BY <1>2, <1>3, <1>4, <1>5, <1>6 DEF TokenInv
<1>8. /\ unrecorded' \in [Months -> Nat]
      /\ \/ booked = used /\ unrecorded'[PresentMonth] = unrecorded[PresentMonth]
         \/ unrecorded'[PresentMonth] = unrecorded[PresentMonth] + 1
      /\ \A m \in Months \ {PresentMonth} : unrecorded'[m] = unrecorded[m]
  BY <1>2, <1>4, <1>6 DEF TokenInv
<1>9. /\ InCall' \subseteq InCall
      /\ CallTokens * Cardinality(InCall') + booked <= CallTokens * Cardinality(InCall)
      /\ CallTokens * Cardinality(InCall') \in Nat /\ CallTokens * Cardinality(InCall) \in Nat
      /\ \A v \in Analysts :
            HasLock(v)' \/ analyst'[v].at = "leased" => analyst'[v].month <= PresentMonth
  BY <1>1, <1>5, CallMadeRoom
<1>10. tokens'[PresentMonth] + CallTokens * Cardinality(InCall') <= MonthRoom
  <2>1. tokens[PresentMonth] + CallTokens * Cardinality(InCall) <= MonthRoom
    BY DEF TokenInv
  <2>2. QED
    BY <1>2, <1>5, <1>6, <1>7, <1>9, <2>1, MonthRoomType
<1>11. \A m \in Months : tokens'[m] <= MonthRoom
  <2>1. tokens'[PresentMonth] <= MonthRoom
    BY <1>2, <1>7, <1>9, <1>10, MonthRoomType
  <2>2. QED
    BY <1>7, <2>1 DEF TokenInv
<1>12. \A m \in Months : spent'[m] <= tokens'[m] + CallTokens * unrecorded'[m]
  <2>1. \A m \in Months : spent[m] <= tokens[m] + CallTokens * unrecorded[m]
    BY DEF TokenInv
  <2>2. spent'[PresentMonth] <= tokens'[PresentMonth] + CallTokens * unrecorded'[PresentMonth]
    <3>1. spent[PresentMonth] <= tokens[PresentMonth] + CallTokens * unrecorded[PresentMonth]
      BY <1>2, <2>1
    <3>2. CASE booked = used /\ unrecorded'[PresentMonth] = unrecorded[PresentMonth]
      BY <1>2, <1>5, <1>6, <1>7, <3>1, <3>2
    <3>3. CASE unrecorded'[PresentMonth] = unrecorded[PresentMonth] + 1
      <4>1. CallTokens * unrecorded'[PresentMonth]
              = CallTokens * unrecorded[PresentMonth] + CallTokens
        BY <1>2, <1>6, <3>3
      <4>2. QED
        BY <1>2, <1>5, <1>6, <1>7, <3>1, <4>1, MonthRoomType
    <3>4. QED
      BY <1>8, <3>2, <3>3
  <2>3. QED
    BY <1>7, <1>8, <2>1, <2>2
<1>13. \A m \in Months : m > PresentMonth => tokens'[m] = 0
  <2>1. ~(PresentMonth > PresentMonth)
    BY <1>2, MonthsFinite
  <2>2. QED
    BY <1>7, <2>1 DEF TokenInv
<1>14. InCall' # {} => ProjectedTokens <= TokenLimit
  BY <1>9 DEF TokenInv
<1>15. \A v \in Analysts : /\ HasLock(v)' => analyst'[v].month <= PresentMonth'
                           /\ analyst'[v].at = "leased" => analyst'[v].month <= PresentMonth'
  BY <1>2, <1>9
<1>16. QED
  BY <1>2, <1>7, <1>8, <1>10, <1>11, <1>12, <1>13, <1>14, <1>15 DEF TokenInv

(* A worker that dies in a call leaves at most the call's tokens out.         *)
LEMMA CrashLeavesOut ==
    ASSUME AnalysisInv, TokenInv, NEW w \in Analysts, AnalystCrash(w)
    PROVE  TokenInv'
<1>1. analyst' = [analyst EXCEPT ![w] = Free] /\ UNCHANGED <<analysisClock, tokens>>
  BY DEF AnalystCrash
<1>2. CASE analyst[w].at # "calling"
  <2>1. UNCHANGED <<spent, unrecorded>>
    BY <1>2 DEF AnalystCrash
  <2>2. analyst'[w].at = "idle" /\ \A v \in Analysts \ {w} : analyst'[v] = analyst[v]
    BY <1>1 DEF AnalysisInv, Free
  <2>3. QED
    BY <1>1, <1>2, <2>1, <2>2, NoCallTokens
<1>3. CASE analyst[w].at = "calling"
  <2>1. PICK used \in {0, CallTokens} : spent' = [spent EXCEPT ![PresentMonth] = @ + used]
    BY <1>3 DEF AnalystCrash, PresentMonth
  <2>2. unrecorded' = [unrecorded EXCEPT ![PresentMonth] = @ + 1]
    BY <1>3 DEF AnalystCrash, PresentMonth, Unrecorded
  <2>3. w \in InCall
    BY <1>3 DEF InCall
  <2>4. PresentMonth \in Months /\ PresentMonth' = PresentMonth
    BY <1>1, MonthOfClock DEF PresentMonth
  <2>5. used \in 0 .. CallTokens /\ used \in Nat /\ used <= CallTokens
    BY <2>1, MonthRoomType
  <2>6. /\ InCall' \subseteq InCall
        /\ CallTokens * Cardinality(InCall') + used <= CallTokens * Cardinality(InCall)
        /\ CallTokens * Cardinality(InCall') \in Nat /\ CallTokens * Cardinality(InCall) \in Nat
        /\ \A v \in Analysts :
              HasLock(v)' \/ analyst'[v].at = "leased" => analyst'[v].month <= PresentMonth
    BY <1>1, <2>3, <2>5, CallMadeRoom
  <2>7. /\ spent' \in [Months -> Nat] /\ unrecorded' \in [Months -> Nat]
        /\ spent'[PresentMonth] = spent[PresentMonth] + used
        /\ unrecorded'[PresentMonth] = unrecorded[PresentMonth] + 1
        /\ \A m \in Months \ {PresentMonth} : spent'[m] = spent[m] /\ unrecorded'[m] = unrecorded[m]
    <3>1. spent[PresentMonth] \in Nat /\ unrecorded[PresentMonth] \in Nat
      BY <2>4 DEF TokenInv
    <3>2. QED
      BY <2>1, <2>2, <2>4, <2>5, <3>1 DEF TokenInv
  <2>8. \A m \in Months : spent'[m] <= tokens[m] + CallTokens * unrecorded'[m]
    <3>1. \A m \in Months : spent[m] <= tokens[m] + CallTokens * unrecorded[m]
      BY DEF TokenInv
    <3>2. CallTokens * (unrecorded[PresentMonth] + 1) = CallTokens * unrecorded[PresentMonth] + CallTokens
          /\ CallTokens * unrecorded[PresentMonth] \in Nat
      BY <2>4, CallsCost DEF TokenInv
    <3>3. spent[PresentMonth] \in Nat /\ tokens[PresentMonth] \in Nat
      BY <2>4 DEF TokenInv
    <3>4. CallTokens * unrecorded'[PresentMonth] = CallTokens * unrecorded[PresentMonth] + CallTokens
      BY <2>7, <3>2
    <3>5. spent'[PresentMonth] <= tokens[PresentMonth] + CallTokens * unrecorded'[PresentMonth]
      BY <2>4, <2>5, <2>7, <3>1, <3>2, <3>3, <3>4, MonthRoomType
    <3>6. QED
      BY <2>7, <3>1, <3>5
  <2>9. tokens[PresentMonth] + CallTokens * Cardinality(InCall') <= MonthRoom
    <3>1. tokens[PresentMonth] + CallTokens * Cardinality(InCall) <= MonthRoom
          /\ tokens[PresentMonth] \in Nat
      BY <2>4 DEF TokenInv
    <3>2. QED
      BY <2>5, <2>6, <3>1, MonthRoomType
  <2>10. InCall' # {} => ProjectedTokens <= TokenLimit
    BY <2>6 DEF TokenInv
  <2>11. \A v \in Analysts : /\ HasLock(v)' => analyst'[v].month <= PresentMonth'
                             /\ analyst'[v].at = "leased" => analyst'[v].month <= PresentMonth'
    BY <2>4, <2>6
  <2>12. /\ tokens' = tokens /\ tokens \in [Months -> Nat]
         /\ \A m \in Months : m > PresentMonth => tokens[m] = 0
         /\ \A m \in Months : tokens[m] <= MonthRoom
    BY <1>1 DEF TokenInv
  <2>13. QED
    BY <2>4, <2>7, <2>8, <2>9, <2>10, <2>11, <2>12 DEF TokenInv
<1>4. QED
  BY <1>2, <1>3

(* In a new month nothing is recorded yet, and every worker may be in a call. *)
LEMMA MonthBegins ==
    ASSUME AnalysisInv, TokenInv, AnalysisTick, AnalysisInv'
    PROVE  TokenInv'
<1>1. /\ UNCHANGED <<analyst, tokens, spent, unrecorded>> /\ InCall' = InCall
      /\ \A v \in Analysts : HasLock(v)' <=> HasLock(v)
  BY DEF AnalysisTick, InCall, HasLock
<1>2. PresentMonth \in Months /\ PresentMonth' \in Months
  <2>1. PresentMonth \in Months
    BY MonthOfClock DEF PresentMonth
  <2>2. PresentMonth' \in Months
    BY DEF AnalysisInv, PresentMonth, Months
  <2>3. QED
    BY <2>1, <2>2
<1>3. PresentMonth \in Nat /\ PresentMonth' \in Nat /\ PresentMonth <= PresentMonth'
  <2>1. analysisClock \in Nat /\ analysisClock' = analysisClock + 1
        /\ MonthLength \in Nat /\ MonthLength > 0
    BY AnalysisAssumption DEF AnalysisInv, AnalysisTick, AnalysisTimes
  <2>2. analysisClock \div MonthLength <= (analysisClock + 1) \div MonthLength
    BY <2>1, QuotientGrows
  <2>3. QED
    BY <1>2, <2>1, <2>2, MonthsFinite DEF PresentMonth, MonthOf
<1>4. \A v \in Analysts : /\ HasLock(v)' => analyst'[v].month <= PresentMonth'
                          /\ analyst'[v].at = "leased" => analyst'[v].month <= PresentMonth'
  <2> SUFFICES ASSUME NEW v \in Analysts, HasLock(v) \/ analyst[v].at = "leased"
               PROVE  analyst[v].month <= PresentMonth'
    BY <1>1
  <2>1. analyst[v].month <= PresentMonth
    BY DEF TokenInv
  <2>2. analyst[v].month \in Months
    BY DEF AnalysisInv, AnalystRow, HasLock, Free
  <2>3. analyst[v].month \in Nat
    BY <2>2, MonthsFinite
  <2>4. QED
    BY <1>3, <2>1, <2>3
<1>5. \A m \in Months : m > PresentMonth' => m > PresentMonth
  BY <1>3, MonthsFinite
<1>6. tokens[PresentMonth'] + CallTokens * Cardinality(InCall) <= MonthRoom
  <2>1. CASE PresentMonth' = PresentMonth
    BY <2>1 DEF TokenInv
  <2>2. CASE PresentMonth' > PresentMonth
    <3>1. tokens[PresentMonth'] = 0
      BY <1>2, <2>2 DEF TokenInv
    <3>2. CallTokens * Cardinality(InCall) \in Nat /\ Cardinality(InCall) \in Nat
          /\ Cardinality(InCall) <= Cardinality(Analysts)
      BY CallsCounted
    <3>3. CASE InCall = {}
      <4>1. Cardinality(InCall) = 0
        BY <3>3, FS_EmptySet
      <4>2. CallTokens * Cardinality(InCall) = 0
        BY <4>1, MonthRoomType
      <4>3. QED
        BY <3>1, <4>2, MonthRoomType
    <3>4. CASE InCall # {}
      <4>1. ProjectedTokens <= TokenLimit
        BY <3>4 DEF TokenInv
      <4>2. (TokenLimit - ProjectedTokens) + CallTokens * Cardinality(InCall) <= MonthRoom
        BY <3>2, MonthRoomType
      <4>3. QED
        BY <3>1, <3>2, <4>1, <4>2, MonthRoomType
    <3>5. QED
      BY <3>3, <3>4
  <2>3. QED
    BY <1>3, <2>1, <2>2
<1>7. QED
  BY <1>1, <1>4, <1>5, <1>6 DEF TokenInv

LEMMA TokenStep ==
    ASSUME AnalysisInv, AnalysisInv', TokenInv, [AnalysisNext]_analysisVars
    PROVE  TokenInv'
<1>1. ASSUME NEW e \in Events, ChangeEvent(e) PROVE TokenInv'
  BY <1>1, AnalystsUnmovedTokens DEF ChangeEvent
<1>2. ASSUME NEW w \in Analysts, Enqueue(w) PROVE TokenInv'
  BY <1>2, AnalystsUnmovedTokens DEF Enqueue
<1>3. ASSUME NEW w \in Analysts, LeaseAnalysis(w) PROVE TokenInv'
  <2>1. PICK a \in Analyses :
          analyst' = [analyst EXCEPT ![w] = [at |-> "leased", on |-> a, month |-> PresentMonth]]
    BY <1>3 DEF LeaseAnalysis, PresentMonth
  <2>2. PresentMonth <= PresentMonth
    <3>1. PresentMonth \in Months
      BY MonthOfClock DEF PresentMonth
    <3>2. PresentMonth \in Nat
      BY <3>1, MonthsFinite
    <3>3. QED
      BY <3>2
  <2>3. analyst[w].at # "calling"
    BY <1>3 DEF LeaseAnalysis, Free
  <2>4. UNCHANGED <<analysisClock, tokens, spent, unrecorded>>
    BY <1>3 DEF LeaseAnalysis
  <2>5. /\ analyst'[w].at = "leased" /\ analyst'[w].month = PresentMonth
        /\ \A v \in Analysts \ {w} : analyst'[v] = analyst[v]
    BY <2>1 DEF AnalysisInv
  <2>6. QED
    BY <2>2, <2>3, <2>4, <2>5, NoCallTokens
<1>4. ASSUME NEW w \in Analysts, LockRow(w) PROVE TokenInv'
  <2>1. analyst[w].at = "leased" /\ UNCHANGED <<analysisClock, tokens, spent, unrecorded>>
    BY <1>4 DEF LockRow
  <2>2. analyst[w] \in [at : {"leased", "locked", "calling"}, on : Analyses, month : Months]
    BY <2>1 DEF AnalysisInv, AnalystRow, Free
  <2>3. PICK row : row = IF NotEnded(analyst[w].on) THEN [analyst[w] EXCEPT !.at = "locked"] ELSE Free
    OBVIOUS
  <2>4. analyst'[w] = row /\ \A v \in Analysts \ {w} : analyst'[v] = analyst[v]
    BY <1>4, <2>3 DEF LockRow, AnalysisInv
  <2>5. row.at = "idle" \/ (row.at = "locked" /\ row.month = analyst[w].month)
    BY <2>2, <2>3 DEF Free
  <2>6. analyst[w].month <= PresentMonth
    BY <2>1 DEF TokenInv
  <2>7. QED
    BY <2>1, <2>4, <2>5, <2>6, NoCallTokens
<1>5. ASSUME NEW w \in Analysts, NotEligible(w) \/ DeferAnalysis(w) PROVE TokenInv'
  <2>1. /\ analyst[w].at = "locked" /\ UNCHANGED <<analysisClock, tokens, spent, unrecorded>>
        /\ analyst' = [analyst EXCEPT ![w] = Free]
    BY <1>5 DEF NotEligible, DeferAnalysis
  <2>2. analyst'[w].at = "idle" /\ \A v \in Analysts \ {w} : analyst'[v] = analyst[v]
    BY <2>1 DEF AnalysisInv, Free
  <2>3. QED
    BY <2>1, <2>2, NoCallTokens
<1>6. ASSUME NEW w \in Analysts, CallModel(w) PROVE TokenInv'
  BY <1>6, CallFits
<1>7. ASSUME NEW w \in Analysts, RecordResult(w) PROVE TokenInv'
  BY <1>7, ResultFits
<1>8. ASSUME NEW w \in Analysts, AnalystCrash(w) PROVE TokenInv'
  BY <1>8, CrashLeavesOut
<1>9. CASE AnalysisTick
  BY <1>9, MonthBegins
<1>10. CASE UNCHANGED analysisVars
  BY <1>10, AnalystsUnmovedTokens DEF analysisVars
<1>11. QED
  BY <1>1, <1>2, <1>3, <1>4, <1>5, <1>6, <1>7, <1>8, <1>9, <1>10 DEF AnalysisNext, AnalystStep

(* For any number of workers, and any excess of what an analysis costs over   *)
(* what is projected for it: a month's tokens and one projection exceed the   *)
(* limit by no more than a call of each worker and one of each call whose     *)
(* cost was lost, although no worker reserves what it is about to use.        *)
THEOREM TokensStayBounded == AnalysisSpec => []MonthlyTokensBounded
<1>1. AnalysisInit => AnalysisInv /\ TokenInv
  BY AnalysisBegins, TokensBegin
<1>2. AnalysisInv /\ [AnalysisNext]_analysisVars => AnalysisInv'
  BY AnalysisStepLeased
<1>3. AnalysisInv /\ TokenInv /\ [AnalysisNext]_analysisVars => TokenInv'
  BY <1>2, TokenStep
<1>4. AnalysisInv /\ TokenInv => MonthlyTokensBounded
  <2> SUFFICES ASSUME AnalysisInv, TokenInv, NEW m \in Months
               PROVE  spent[m] + ProjectedTokens
                        <= TokenLimit + CallTokens * (Cardinality(Analysts) + unrecorded[m])
    BY DEF MonthlyTokensBounded
  <2>1. /\ spent[m] <= tokens[m] + CallTokens * unrecorded[m] /\ tokens[m] <= MonthRoom
        /\ tokens[m] \in Nat /\ spent[m] \in Nat /\ unrecorded[m] \in Nat
    BY DEF TokenInv
  <2>2. Cardinality(Analysts) \in Nat
    BY AnalystsCounted
  <2>3. CallTokens * (Cardinality(Analysts) + unrecorded[m]) =
          CallTokens * Cardinality(Analysts) + CallTokens * unrecorded[m]
        /\ CallTokens * Cardinality(Analysts) \in Nat
    BY <2>1, <2>2, CallsCost
  <2>4. CallTokens * unrecorded[m] \in Nat
    BY <2>1, CallsCost
  <2>5. QED
    BY <2>1, <2>3, <2>4, MonthRoomType DEF MonthRoom
<1>5. QED
  BY <1>1, <1>2, <1>3, <1>4, PTL DEF AnalysisSpec

-----------------------------------------------------------------------------
(* SourceMonitoring: the fields of the rows and of a worker's memory, and     *)
(* what these say of each other.                                            *)
CheckShape ==
    /\ check = [c \in Checks |-> check[c]]
    /\ \A c \in Checks :
          /\ check[c] = [state |-> check[c].state, source |-> check[c].source,
                         dry |-> check[c].dry, due |-> check[c].due,
                         until |-> check[c].until, by |-> check[c].by]
          /\ check[c].state \in {"absent"} \cup Open \cup Closed
          /\ check[c].dry \in BOOLEAN
          /\ check[c].state # "absent" => check[c].source \in TrustedSources

CheckerShape ==
    /\ checker = [w \in Checkers |-> checker[w]]
    /\ \A w \in Checkers :
          /\ checker[w] = [at |-> checker[w].at, check |-> checker[w].check,
                           until |-> checker[w].until, tag |-> checker[w].tag,
                           body |-> checker[w].body, answer |-> checker[w].answer,
                           no |-> checker[w].no]
          /\ checker[w].at = "idle" => checker[w] = Resting

(* A worker's lease is the row's or an earlier one, and nobody else's.       *)
CheckerLeases ==
    \A w \in Checkers : checker[w].at # "idle" =>
        /\ checker[w].check \in Checks /\ checker[w].until \in Nat
        /\ \/ check[checker[w].check].state \in Closed
           \/ /\ check[checker[w].check].state = "running"
              /\ checker[w].until <= check[checker[w].check].until
        /\ \A v \in Checkers \ {w} :
              checker[v].check = checker[w].check => checker[v].until # checker[w].until

CheckRunningUntil == \A c \in Checks : check[c].state = "running" => check[c].until \in Nat

LeasesInv ==
    sourceClock \in Nat /\ CheckShape /\ CheckerShape /\ CheckerLeases /\ CheckRunningUntil

CheckPhase(c) ==
    IF check[c].state = "absent" THEN "absent" ELSE IF IsOpen(c) THEN "open" ELSE "closed"
CheckHolders(c) ==
    {w \in Checkers : IsOpen(c) /\ checker[w].check = c /\ checker[w].until = check[c].until}

(* What of a row the abstract table shows besides the holder.                *)
SameCheck(c) ==
    /\ CheckPhase(c)' = CheckPhase(c)
    /\ check'[c].dry = check[c].dry /\ check'[c].by = check[c].by

LEMMA CheckTaken ==
    ASSUME NEW c \in Checks, NEW w \in Checkers, IsOpen(c),
           \A d \in Checks : SameCheck(d),
           CheckHolders(c)' = {w},
           \A d \in Checks \ {c} : CheckHolders(d)' = CheckHolders(d)
    PROVE  CheckLeases!LeasedNext
<1> DEFINE P == [d \in Checks |-> CheckPhase(d)]
           H == [d \in Checks |-> CheckHolders(d)]
           G == [d \in Checks |-> ~check[d].dry]
           F == [d \in Checks |-> check[d].by]
<1>1. H' = [H EXCEPT ![c] = {w}]
  OBVIOUS
<1>2. P' = P
  BY DEF SameCheck
<1>3. F' = F /\ G' = G
  BY DEF SameCheck
<1>4. P[c] = "open"
  BY DEF CheckPhase, IsOpen, Open
<1>5. CheckLeases!Take(c, w)
  BY <1>1, <1>2, <1>3, <1>4 DEF CheckLeases!Take, CheckPhase, CheckHolders
<1>6. QED
  BY <1>5 DEF CheckLeases!LeasedNext

LEMMA CheckAbandoned ==
    ASSUME NEW c \in Checks, IsOpen(c),
           \A d \in Checks : SameCheck(d),
           CheckHolders(c)' = {},
           \A d \in Checks \ {c} : CheckHolders(d)' = CheckHolders(d)
    PROVE  CheckLeases!LeasedNext
<1> DEFINE P == [d \in Checks |-> CheckPhase(d)]
           H == [d \in Checks |-> CheckHolders(d)]
           G == [d \in Checks |-> ~check[d].dry]
           F == [d \in Checks |-> check[d].by]
<1>1. H' = [H EXCEPT ![c] = {}]
  OBVIOUS
<1>2. P' = P
  BY DEF SameCheck
<1>3. F' = F /\ G' = G
  BY DEF SameCheck
<1>4. P[c] = "open"
  BY DEF CheckPhase, IsOpen, Open
<1>5. CheckLeases!Abandon(c)
  BY <1>1, <1>2, <1>3, <1>4 DEF CheckLeases!Abandon, CheckPhase, CheckHolders
<1>6. QED
  BY <1>5 DEF CheckLeases!LeasedNext

LEMMA CheckFinished ==
    ASSUME NEW c \in Checks, NEW w \in Checkers, IsOpen(c),
           check[c].dry \/ w \in CheckHolders(c),
           CheckPhase(c)' = "closed", CheckHolders(c)' = {}, check'[c].by = w,
           check'[c].dry = check[c].dry,
           \A d \in Checks \ {c} : SameCheck(d) /\ CheckHolders(d)' = CheckHolders(d)
    PROVE  CheckLeases!LeasedNext
<1> DEFINE P == [d \in Checks |-> CheckPhase(d)]
           H == [d \in Checks |-> CheckHolders(d)]
           G == [d \in Checks |-> ~check[d].dry]
           F == [d \in Checks |-> check[d].by]
<1>1. H' = [H EXCEPT ![c] = {}]
  OBVIOUS
<1>2. P' = [P EXCEPT ![c] = "closed"]
  BY DEF SameCheck
<1>3. F' = [F EXCEPT ![c] = w]
  BY DEF SameCheck
<1>4. G' = G
  BY DEF SameCheck
<1>5. P[c] = "open" /\ (G[c] => w \in H[c])
  BY DEF CheckPhase, IsOpen, Open
<1>6. CheckLeases!Finish(c, w)
  BY <1>1, <1>2, <1>3, <1>4, <1>5 DEF CheckLeases!Finish, CheckPhase, CheckHolders
<1>7. QED
  BY <1>6 DEF CheckLeases!LeasedNext

LEMMA CheckEntered ==
    ASSUME \A d \in Checks :
              /\ CheckHolders(d)' = CheckHolders(d) /\ check'[d].by = check[d].by
              /\ \/ SameCheck(d)
                 \/ CheckPhase(d) = "absent" /\ CheckPhase(d)' = "open"
    PROVE  CheckLeases!LeasedNext
<1> DEFINE P == [d \in Checks |-> CheckPhase(d)]
           H == [d \in Checks |-> CheckHolders(d)]
           G == [d \in Checks |-> ~check[d].dry]
           F == [d \in Checks |-> check[d].by]
<1>1. H' = H /\ F' = F
  OBVIOUS
<1>2. P' \in [Checks -> {"absent", "open", "closed"}] /\ G' \in [Checks -> BOOLEAN]
  BY DEF CheckPhase
<1>3. \A d \in Checks :
        \/ P[d] = "absent" /\ P'[d] = "open"
        \/ P'[d] = P[d] /\ G'[d] = G[d]
  BY DEF SameCheck
<1>4. CheckLeases!Enter
  BY <1>1, <1>2, <1>3 DEF CheckLeases!Enter, CheckPhase, CheckHolders
<1>5. QED
  BY <1>4 DEF CheckLeases!LeasedNext

LEMMA CheckStays ==
    ASSUME \A d \in Checks : SameCheck(d) /\ CheckHolders(d)' = CheckHolders(d)
    PROVE  UNCHANGED CheckLeases!leasedVars
  BY DEF CheckLeases!leasedVars, SameCheck, CheckPhase, CheckHolders

LEMMA RestingFields ==
    /\ Resting.at = "idle" /\ Resting.check = None
    /\ Resting = [at |-> Resting.at, check |-> Resting.check, until |-> Resting.until,
                  tag |-> Resting.tag, body |-> Resting.body, answer |-> Resting.answer,
                  no |-> Resting.no]
    /\ None \notin Checks /\ None \notin Nat
<1>1. Checks \subseteq Nat
  BY SourceAssumption DEF Checks
<1>2. QED
  BY <1>1, SourceAssumption DEF Resting

(* An idle worker has no check.                                             *)
LEMMA IdleHasNoCheck ==
    ASSUME CheckerShape, NEW w \in Checkers, checker[w].check \in Checks
    PROVE  checker[w].at # "idle"
  BY RestingFields DEF CheckerShape

LEMMA SourceLeasesBegin ==
    ASSUME SourceInit PROVE LeasesInv
<1>1. 0 \in Nat /\ CheckRunningUntil
  BY DEF SourceInit, CheckRunningUntil
<1>2. CheckShape
  BY DEF SourceInit, CheckShape
<1>3. CheckerShape /\ CheckerLeases
  BY RestingFields DEF SourceInit, CheckerShape, CheckerLeases
<1>4. QED
  BY <1>1, <1>2, <1>3 DEF SourceInit, LeasesInv

(* A worker forgets its check and leaves the row as it is.                   *)
LEMMA WorkerRests ==
    ASSUME LeasesInv, NEW w \in Checkers, checker[w].at # "idle",
           checker' = [checker EXCEPT ![w] = Resting], UNCHANGED <<check, sourceClock>>
    PROVE  LeasesInv' /\ (CheckLeases!LeasedNext \/ UNCHANGED CheckLeases!leasedVars)
<1>1. checker'[w] = Resting /\ \A v \in Checkers \ {w} : checker'[v] = checker[v]
  BY DEF LeasesInv, CheckerShape
<1>2. CheckerShape'
  <2>1. checker' = [v \in Checkers |-> checker'[v]]
    BY DEF LeasesInv, CheckerShape
  <2>2. QED
    BY <1>1, <2>1, RestingFields DEF LeasesInv, CheckerShape
<1>3. CheckerLeases'
  BY <1>1, RestingFields DEF LeasesInv, CheckerLeases
<1>4. LeasesInv'
  BY <1>2, <1>3 DEF LeasesInv, CheckShape, CheckRunningUntil
<1>5. PICK c \in Checks : c = checker[w].check
  BY DEF LeasesInv, CheckerLeases
<1>6. \A d \in Checks : SameCheck(d)
  BY DEF SameCheck, CheckPhase, IsOpen
<1>7. \A d \in Checks : w \notin CheckHolders(d)'
  BY <1>1, RestingFields DEF CheckHolders
<1>8. \A d \in Checks \ {c} : CheckHolders(d)' = CheckHolders(d)
  BY <1>1, <1>5, <1>7 DEF CheckHolders, IsOpen
<1>9. CASE w \in CheckHolders(c)
  <2>1. \A v \in Checkers \ {w} : v \notin CheckHolders(c)
    BY <1>5, <1>9 DEF LeasesInv, CheckerLeases, CheckHolders
  <2>2. IsOpen(c) /\ CheckHolders(c)' = {}
    BY <1>1, <1>7, <1>9, <2>1 DEF CheckHolders, IsOpen
  <2>3. QED
    BY <1>4, <1>6, <1>8, <2>2, CheckAbandoned
<1>10. CASE w \notin CheckHolders(c)
  <2>1. CheckHolders(c)' = CheckHolders(c)
    BY <1>1, <1>7, <1>10 DEF CheckHolders, IsOpen
  <2>2. QED
    BY <1>4, <1>6, <1>8, <2>1, CheckStays
<1>11. QED
  BY <1>9, <1>10

(* A worker goes on with its check.                                         *)
LEMMA WorkerGoesOn ==
    ASSUME LeasesInv, NEW w \in Checkers, checker[w].at # "idle",
           NEW row, row = [at |-> row.at, check |-> row.check, until |-> row.until,
                           tag |-> row.tag, body |-> row.body, answer |-> row.answer, no |-> row.no],
           row.at # "idle", row.check = checker[w].check, row.until = checker[w].until,
           checker' = [checker EXCEPT ![w] = row], UNCHANGED <<check, sourceClock>>
    PROVE  LeasesInv' /\ UNCHANGED CheckLeases!leasedVars
<1>1. checker'[w] = row /\ \A v \in Checkers \ {w} : checker'[v] = checker[v]
  BY DEF LeasesInv, CheckerShape
<1>2. \A v \in Checkers : /\ checker'[v].check = checker[v].check
                         /\ checker'[v].until = checker[v].until
                         /\ (checker'[v].at = "idle") <=> (checker[v].at = "idle")
  BY <1>1
<1>3. CheckerShape'
  <2>1. checker' = [v \in Checkers |-> checker'[v]]
    BY DEF LeasesInv, CheckerShape
  <2>2. QED
    BY <1>1, <2>1 DEF LeasesInv, CheckerShape
<1>4. CheckerLeases'
  BY <1>2 DEF LeasesInv, CheckerLeases
<1>5. LeasesInv'
  BY <1>3, <1>4 DEF LeasesInv, CheckShape, CheckRunningUntil
<1>6. \A d \in Checks : SameCheck(d) /\ CheckHolders(d)' = CheckHolders(d)
  BY <1>2 DEF SameCheck, CheckPhase, CheckHolders, IsOpen
<1>7. QED
  BY <1>5, <1>6, CheckStays

(* What is written into the row of a check that ends, and of one leased.      *)
LEMMA ClosedCheckRow ==
    ASSUME CheckShape, NEW c \in Checks, NEW w, NEW state, check' = ClosedCheck(c, w, state)
    PROVE  /\ check' = [d \in Checks |-> check'[d]]
           /\ check'[c] = [state |-> state, source |-> check[c].source, dry |-> check[c].dry,
                           due |-> check[c].due, until |-> None, by |-> w]
           /\ \A d \in Checks \ {c} : check'[d] = check[d]
<1>1. check' = [d \in Checks |-> check'[d]] /\ \A d \in Checks \ {c} : check'[d] = check[d]
  BY DEF CheckShape, ClosedCheck
<1>2. check'[c] = [check[c] EXCEPT !.state = state, !.until = None, !.by = w]
  BY DEF CheckShape, ClosedCheck
<1>3. check[c] = [state |-> check[c].state, source |-> check[c].source,
                  dry |-> check[c].dry, due |-> check[c].due,
                  until |-> check[c].until, by |-> check[c].by]
  BY DEF CheckShape
<1>4. QED
  BY <1>1, <1>2, <1>3

LEMMA LeasedCheckRow ==
    ASSUME CheckShape, NEW c \in Checks, NEW until,
           check' = [check EXCEPT ![c] = [@ EXCEPT !.state = "running", !.until = until]]
    PROVE  /\ check' = [d \in Checks |-> check'[d]]
           /\ check'[c] = [state |-> "running", source |-> check[c].source, dry |-> check[c].dry,
                           due |-> check[c].due, until |-> until, by |-> check[c].by]
           /\ \A d \in Checks \ {c} : check'[d] = check[d]
<1>1. check' = [d \in Checks |-> check'[d]] /\ \A d \in Checks \ {c} : check'[d] = check[d]
  BY DEF CheckShape
<1>2. check'[c] = [check[c] EXCEPT !.state = "running", !.until = until]
  BY DEF CheckShape
<1>3. check[c] = [state |-> check[c].state, source |-> check[c].source,
                  dry |-> check[c].dry, due |-> check[c].due,
                  until |-> check[c].until, by |-> check[c].by]
  BY DEF CheckShape
<1>4. QED
  BY <1>1, <1>2, <1>3

(* A check ends, by its holder or, if it is a dry run, by any of its workers. *)
LEMMA WorkerCloses ==
    ASSUME LeasesInv, NEW w \in Checkers, checker[w].at # "idle", NEW state \in Closed,
           NEW c \in Checks, c = checker[w].check, IsOpen(c),
           check[c].dry \/ w \in CheckHolders(c),
           check' = ClosedCheck(c, w, state),
           checker' = [checker EXCEPT ![w] = Resting], UNCHANGED sourceClock
    PROVE  LeasesInv' /\ CheckLeases!LeasedNext
<1>1. checker'[w] = Resting /\ \A v \in Checkers \ {w} : checker'[v] = checker[v]
  BY DEF LeasesInv, CheckerShape
<1>2. /\ check' = [d \in Checks |-> check'[d]]
      /\ check'[c] = [state |-> state, source |-> check[c].source, dry |-> check[c].dry,
                      due |-> check[c].due, until |-> None, by |-> w]
      /\ \A d \in Checks \ {c} : check'[d] = check[d]
  BY ClosedCheckRow DEF LeasesInv
<1>3. CheckerShape'
  <2>1. checker' = [v \in Checkers |-> checker'[v]]
    BY DEF LeasesInv, CheckerShape
  <2>2. QED
    BY <1>1, <2>1, RestingFields DEF LeasesInv, CheckerShape
<1>4. CheckShape'
  <2>1. check[c].dry \in BOOLEAN /\ check[c].source \in TrustedSources
    BY DEF LeasesInv, CheckShape, IsOpen, Open
  <2>2. /\ check'[c] = [state |-> check'[c].state, source |-> check'[c].source,
                       dry |-> check'[c].dry, due |-> check'[c].due,
                       until |-> check'[c].until, by |-> check'[c].by]
        /\ check'[c].state = state /\ check'[c].dry = check[c].dry
        /\ check'[c].source = check[c].source
    BY <1>2
  <2>3. \A d \in Checks \ {c} :
          /\ check[d] = [state |-> check[d].state, source |-> check[d].source,
                        dry |-> check[d].dry, due |-> check[d].due,
                        until |-> check[d].until, by |-> check[d].by]
          /\ check[d].state \in {"absent"} \cup Open \cup Closed
          /\ check[d].dry \in BOOLEAN
          /\ check[d].state # "absent" => check[d].source \in TrustedSources
    BY DEF LeasesInv, CheckShape
  <2>4. SUFFICES ASSUME NEW d \in Checks
                 PROVE  /\ check'[d] = [state |-> check'[d].state, source |-> check'[d].source,
                                       dry |-> check'[d].dry, due |-> check'[d].due,
                                       until |-> check'[d].until, by |-> check'[d].by]
                        /\ check'[d].state \in {"absent"} \cup Open \cup Closed
                        /\ check'[d].dry \in BOOLEAN
                        /\ check'[d].state # "absent" => check'[d].source \in TrustedSources
    BY <1>2 DEF CheckShape
  <2>5. CASE d = c
    BY <2>1, <2>2, <2>5
  <2>6. CASE d # c
    <3>1. check'[d] = check[d]
      BY <1>2, <2>6
    <3>2. QED
      BY <2>3, <2>6, <3>1
  <2>7. QED
    BY <2>5, <2>6
<1>5. CheckRunningUntil'
  BY <1>2 DEF LeasesInv, CheckRunningUntil, Closed
<1>6. CheckerLeases'
  <2>1. SUFFICES ASSUME NEW v \in Checkers, checker'[v].at # "idle"
                 PROVE  /\ checker'[v].check \in Checks /\ checker'[v].until \in Nat
                        /\ \/ check'[checker'[v].check].state \in Closed
                           \/ /\ check'[checker'[v].check].state = "running"
                              /\ checker'[v].until <= check'[checker'[v].check].until
                        /\ \A u \in Checkers \ {v} :
                              checker'[u].check = checker'[v].check =>
                                 checker'[u].until # checker'[v].until
    BY DEF CheckerLeases
  <2>2. v # w /\ checker'[v] = checker[v] /\ checker[v].check \in Checks
    BY <1>1, <2>1, RestingFields DEF LeasesInv, CheckerLeases
  <2>3. \A u \in Checkers \ {v} :
           checker'[u].check = checker'[v].check => checker'[u].until # checker'[v].until
    BY <1>1, <2>1, <2>2, RestingFields DEF LeasesInv, CheckerLeases
  <2>4. CASE checker[v].check = c
    BY <1>2, <2>1, <2>2, <2>3, <2>4 DEF LeasesInv, CheckerLeases
  <2>5. CASE checker[v].check # c
    BY <1>2, <2>1, <2>2, <2>3, <2>5 DEF LeasesInv, CheckerLeases
  <2>6. QED
    BY <2>4, <2>5
<1>7. LeasesInv'
  BY <1>3, <1>4, <1>5, <1>6 DEF LeasesInv
<1>8. ~IsOpen(c)' /\ CheckPhase(c)' = "closed" /\ CheckHolders(c)' = {}
  BY <1>2 DEF IsOpen, Open, Closed, CheckPhase, CheckHolders
<1>9. \A d \in Checks \ {c} : SameCheck(d) /\ CheckHolders(d)' = CheckHolders(d)
  <2>1. \A d \in Checks \ {c} : SameCheck(d) /\ (IsOpen(d)' <=> IsOpen(d))
    BY <1>2 DEF SameCheck, CheckPhase, IsOpen
  <2>2. \A d \in Checks : checker'[w].check # d
    BY <1>1, RestingFields
  <2>3. QED
    BY <1>1, <1>2, <2>1, <2>2 DEF CheckHolders
<1>10. check'[c].by = w /\ check'[c].dry = check[c].dry
  BY <1>2
<1>11. QED
  BY <1>7, <1>8, <1>9, <1>10, CheckFinished

LEMMA LeaseCheckTakes ==
    ASSUME LeasesInv, NEW w \in Checkers, LeaseCheck(w)
    PROVE  LeasesInv' /\ CheckLeases!LeasedNext
<1> DEFINE until == sourceClock + CheckLease
<1>1. PICK c \in Checks :
        /\ IsOpen(c) /\ Leasable(c)
        /\ check' = [check EXCEPT ![c] = [@ EXCEPT !.state = "running", !.until = until]]
        /\ checker' = [checker EXCEPT ![w] =
                           [Resting EXCEPT !.at = "leased", !.check = c, !.until = until]]
  BY DEF LeaseCheck
<1>2. /\ check' = [d \in Checks |-> check'[d]]
      /\ check'[c] = [state |-> "running", source |-> check[c].source, dry |-> check[c].dry,
                      due |-> check[c].due, until |-> until, by |-> check[c].by]
      /\ \A d \in Checks \ {c} : check'[d] = check[d]
  BY <1>1, LeasedCheckRow DEF LeasesInv
<1>3. until \in Nat /\ sourceClock < until /\ UNCHANGED sourceClock
  BY SourceAssumption DEF LeasesInv, LeaseCheck
<1> HIDE DEF until
<1>4. /\ checker'[w] = [at |-> "leased", check |-> c, until |-> until, tag |-> None, body |-> None,
                        answer |-> NoAnswer, no |-> 0]
      /\ \A v \in Checkers \ {w} : checker'[v] = checker[v]
      /\ checker' = [v \in Checkers |-> checker'[v]]
  BY <1>1 DEF LeasesInv, CheckerShape, Resting
<1>5. CheckerShape'
  BY <1>4 DEF LeasesInv, CheckerShape
<1>6. CheckShape'
  <2>1. check[c].dry \in BOOLEAN /\ check[c].source \in TrustedSources
    BY <1>1 DEF LeasesInv, CheckShape, IsOpen, Open
  <2>2. QED
    BY <1>2, <2>1 DEF LeasesInv, CheckShape, Open
<1>7. CheckRunningUntil'
  BY <1>2, <1>3 DEF LeasesInv, CheckRunningUntil
<1>8. checker[w].at = "idle"
  BY DEF LeaseCheck
<1>9. \A v \in Checkers : checker[v].check = c =>
          v # w /\ checker[v].at # "idle" /\ checker[v].until \in Nat /\ checker[v].until < until
  <2>1. SUFFICES ASSUME NEW v \in Checkers, checker[v].check = c
                 PROVE  v # w /\ checker[v].at # "idle" /\ checker[v].until \in Nat
                        /\ checker[v].until < until
    OBVIOUS
  <2>2. v # w /\ checker[v].at # "idle"
    BY <1>8, <2>1, IdleHasNoCheck DEF LeasesInv
  <2>3. checker[v].until \in Nat /\ check[c].state = "running"
        /\ checker[v].until <= check[c].until /\ check[c].until \in Nat
    BY <1>1, <2>1, <2>2 DEF LeasesInv, CheckerLeases, CheckRunningUntil, IsOpen, Open, Closed
  <2>4. check[c].until <= sourceClock
    BY <1>1, <2>3 DEF Leasable
  <2>5. QED
    BY <1>3, <2>2, <2>3, <2>4 DEF LeasesInv
<1>10. CheckerLeases'
  <2>1. SUFFICES ASSUME NEW v \in Checkers, checker'[v].at # "idle"
                 PROVE  /\ checker'[v].check \in Checks /\ checker'[v].until \in Nat
                        /\ \/ check'[checker'[v].check].state \in Closed
                           \/ /\ check'[checker'[v].check].state = "running"
                              /\ checker'[v].until <= check'[checker'[v].check].until
                        /\ \A u \in Checkers \ {v} :
                              checker'[u].check = checker'[v].check =>
                                 checker'[u].until # checker'[v].until
    BY DEF CheckerLeases
  <2>2. CASE v = w
    BY <1>2, <1>3, <1>4, <1>9, <2>2
  <2>3. CASE v # w
    <3>1. checker'[v] = checker[v] /\ checker[v].check \in Checks /\ checker[v].until \in Nat
      BY <1>4, <2>1, <2>3 DEF LeasesInv, CheckerLeases
    <3>2. \A u \in Checkers \ {v} :
             checker'[u].check = checker'[v].check => checker'[u].until # checker'[v].until
      BY <1>3, <1>4, <1>9, <2>1, <2>3, <3>1 DEF LeasesInv, CheckerLeases
    <3>3. CASE checker[v].check = c
      BY <1>2, <1>3, <1>9, <3>1, <3>2, <3>3
    <3>4. CASE checker[v].check # c
      BY <1>2, <2>1, <3>1, <3>2, <3>4 DEF LeasesInv, CheckerLeases
    <3>5. QED
      BY <3>3, <3>4
  <2>4. QED
    BY <2>2, <2>3
<1>11. LeasesInv'
  BY <1>3, <1>5, <1>6, <1>7, <1>10 DEF LeasesInv
<1>12. \A d \in Checks : SameCheck(d)
  BY <1>1, <1>2 DEF SameCheck, CheckPhase, IsOpen, Open
<1>13. CheckHolders(c)' = {w}
  BY <1>2, <1>3, <1>4, <1>9 DEF CheckHolders, IsOpen, Open
<1>14. \A d \in Checks \ {c} : CheckHolders(d)' = CheckHolders(d)
  <2>1. \A d \in Checks : checker[w].check # d
    BY <1>8, RestingFields DEF LeasesInv, CheckerShape
  <2>2. QED
    BY <1>2, <1>4, <2>1 DEF CheckHolders, IsOpen
<1>15. QED
  BY <1>1, <1>11, <1>12, <1>13, <1>14, CheckTaken

(* A check that is queued fills a row nobody has leased, of a source that has *)
(* no open check.                                                           *)
LEMMA QueuedRow ==
    ASSUME CheckShape, NEW s, NEW isDry, NEW due, QueueCheck(s, isDry, due), check' # check
    PROVE  \E c \in Checks :
              /\ check[c].state = "absent" /\ ~ActiveCheck(s)
              /\ check' = [d \in Checks |-> check'[d]]
              /\ check'[c] = [state |-> "queued", source |-> s, dry |-> isDry, due |-> due,
                              until |-> check[c].until, by |-> check[c].by]
              /\ \A d \in Checks \ {c} : check'[d] = check[d]
<1>1. PICK c \in Checks :
        /\ check[c].state = "absent" /\ ~ActiveCheck(s)
        /\ check' = [check EXCEPT ![c] = [@ EXCEPT !.state = "queued", !.source = s,
                                                   !.dry = isDry, !.due = due]]
  BY DEF QueueCheck
<1>2. check' = [d \in Checks |-> check'[d]] /\ \A d \in Checks \ {c} : check'[d] = check[d]
  BY <1>1 DEF CheckShape
<1>3. check'[c] = [check[c] EXCEPT !.state = "queued", !.source = s, !.dry = isDry, !.due = due]
  BY <1>1 DEF CheckShape
<1>4. check[c] = [state |-> check[c].state, source |-> check[c].source,
                  dry |-> check[c].dry, due |-> check[c].due,
                  until |-> check[c].until, by |-> check[c].by]
  BY DEF CheckShape
<1>5. check'[c] = [state |-> "queued", source |-> s, dry |-> isDry, due |-> due,
                   until |-> check[c].until, by |-> check[c].by]
  BY <1>3, <1>4
<1>6. QED
  BY <1>1, <1>2, <1>5

LEMMA QueueEnters ==
    ASSUME LeasesInv, NEW s \in TrustedSources, NEW isDry \in BOOLEAN, NEW due,
           QueueCheck(s, isDry, due), UNCHANGED <<checker, sourceClock>>
    PROVE  LeasesInv' /\ CheckLeases!LeasedNext
<1>1. CASE check' = check
  <2>1. LeasesInv'
    BY <1>1 DEF LeasesInv, CheckShape, CheckerShape, CheckerLeases, CheckRunningUntil
  <2>2. QED
    BY <1>1, <2>1, CheckEntered DEF SameCheck, CheckPhase, CheckHolders, IsOpen
<1>2. CASE check' # check
  <2>1. PICK c \in Checks :
          /\ check[c].state = "absent" /\ ~ActiveCheck(s)
          /\ check' = [d \in Checks |-> check'[d]]
          /\ check'[c] = [state |-> "queued", source |-> s, dry |-> isDry, due |-> due,
                          until |-> check[c].until, by |-> check[c].by]
          /\ \A d \in Checks \ {c} : check'[d] = check[d]
    BY <1>2, QueuedRow DEF LeasesInv
  <2>2. \A w \in Checkers : checker[w].check # c
    <3>1. SUFFICES ASSUME NEW w \in Checkers, checker[w].check = c PROVE FALSE
      OBVIOUS
    <3>2. checker[w].at # "idle"
      BY <3>1, IdleHasNoCheck DEF LeasesInv
    <3>3. QED
      BY <2>1, <3>1, <3>2 DEF LeasesInv, CheckerLeases, Closed
  <2>3. CheckShape'
    BY <2>1 DEF LeasesInv, CheckShape, Open
  <2>4. CheckRunningUntil' /\ CheckerShape'
    BY <2>1 DEF LeasesInv, CheckRunningUntil, CheckerShape
  <2>5. CheckerLeases'
    BY <2>1, <2>2 DEF LeasesInv, CheckerLeases
  <2>6. LeasesInv'
    BY <2>3, <2>4, <2>5 DEF LeasesInv
  <2>7. \A d \in Checks : CheckHolders(d)' = CheckHolders(d)
    BY <2>1, <2>2 DEF CheckHolders, IsOpen
  <2>8. \A d \in Checks \ {c} : SameCheck(d)
    BY <2>1 DEF SameCheck, CheckPhase, IsOpen
  <2>9. CheckPhase(c) = "absent" /\ CheckPhase(c)' = "open" /\ check'[c].by = check[c].by
    BY <2>1 DEF CheckPhase, IsOpen, Open
  <2>10. QED
    BY <2>6, <2>7, <2>8, <2>9, CheckEntered DEF SameCheck
<1>3. QED
  BY <1>1, <1>2

(* The scheduler's plan names trusted sources.                               *)
PlanTyped == plan \in Seq(TrustedSources \X {plan[i][2] : i \in DOMAIN plan})

LEMMA ValuesInSeq ==
    ASSUME NEW S, NEW n \in Nat, NEW f, \A i \in 1 .. n : f[i] \in S
    PROVE  [i \in 1 .. n |-> f[i]] \in Seq(S)
  OBVIOUS

LEMMA TailOf ==
    ASSUME NEW S, NEW p \in Seq(S), p # <<>> PROVE Head(p) \in S /\ Tail(p) \in Seq(S)
  OBVIOUS

LEMMA PlanOf ==
    ASSUME NEW D, NEW p \in Seq(TrustedSources \X D)
    PROVE  p \in Seq(TrustedSources \X {p[i][2] : i \in DOMAIN p})
<1> DEFINE S == TrustedSources \X {p[j][2] : j \in DOMAIN p}
<1>1. /\ Len(p) \in Nat /\ p = [i \in 1 .. Len(p) |-> p[i]]
      /\ \A i \in 1 .. Len(p) : p[i] \in TrustedSources \X D
  OBVIOUS
<1>2. \A i \in 1 .. Len(p) : p[i] \in S
  BY <1>1
<1> HIDE DEF S
<1>3. [i \in 1 .. Len(p) |-> p[i]] \in Seq(S)
  BY <1>1, <1>2, ValuesInSeq
<1>4. p \in Seq(S)
  BY <1>1, <1>3
<1>5. QED
  BY <1>4 DEF S

LEMMA PlannedSources ==
    ASSUME NEW order \in SetToSeqs(DueSources), NEW D,
           \A i \in DOMAIN order : DueAt(order[i]) \in D,
           NEW n, n = IF Len(order) < ScheduleLimit THEN Len(order) ELSE ScheduleLimit
    PROVE  [i \in 1 .. n |-> <<order[i], DueAt(order[i])>>] \in Seq(TrustedSources \X D)
<1>1. Cardinality(DueSources) \in Nat
  BY SourceAssumption, FS_Subset, FS_CardinalityType DEF DueSources
<1>2. /\ order \in [1 .. Cardinality(DueSources) -> DueSources]
      /\ Len(order) = Cardinality(DueSources)
  BY <1>1 DEF SetToSeqs
<1>3. n \in Nat /\ n <= Cardinality(DueSources)
  BY <1>1, <1>2, SourceAssumption
<1>4. \A i \in 1 .. n : i \in DOMAIN order /\ order[i] \in TrustedSources
  BY <1>1, <1>2, <1>3 DEF DueSources
<1>5. QED
  BY <1>3, <1>4

SourceInv == LeasesInv /\ PlanTyped

LEMMA PlanStep ==
    ASSUME SourceInv, [SourceNext]_sourceVars PROVE PlanTyped'
<1>1. CASE UNCHANGED plan
  BY <1>1 DEF SourceInv, PlanTyped
<1>2. CASE PlanChecks
  <2>1. PICK order \in SetToSeqs(DueSources) :
          plan' = LET n == IF Len(order) < ScheduleLimit THEN Len(order) ELSE ScheduleLimit
                  IN  [i \in 1 .. n |-> <<order[i], DueAt(order[i])>>]
    BY <1>2 DEF PlanChecks
  <2>2. plan' \in Seq(TrustedSources \X {DueAt(order[i]) : i \in DOMAIN order})
    BY <2>1, PlannedSources
  <2>3. QED
    BY <2>2, PlanOf DEF PlanTyped
<1>3. CASE QueuePlanned
  <2>1. plan' \in Seq(TrustedSources \X {plan[i][2] : i \in DOMAIN plan})
    <3> DEFINE S == TrustedSources \X {plan[i][2] : i \in DOMAIN plan}
    <3>1. plan # <<>> /\ (plan' = Tail(plan) \/ plan' = <<>>)
      BY <1>3 DEF QueuePlanned
    <3>2. plan \in Seq(S)
      BY DEF SourceInv, PlanTyped
    <3> HIDE DEF S
    <3>3. plan' \in Seq(S)
      <4>1. <<>> \in Seq(S)
        OBVIOUS
      <4>2. QED
        BY <3>1, <3>2, <4>1, TailOf
    <3>4. QED
      BY <3>3 DEF S
  <2>2. QED
    BY <2>1, PlanOf DEF PlanTyped
<1>4. QED
  BY <1>1, <1>2, <1>3
  DEF SourceNext, sourceVars, CreateSource, SwitchSource, ChangePrefix, QueueByHand, CheckerStep,
      LeaseCheck, CompleteDryRun, FetchSource, CallsDisabled, ApplyFetchResult, RecordFailure,
      CheckerCrash, SourceTick

LEMMA HolderOf ==
    ASSUME LeasesInv, NEW w \in Checkers, checker[w].at # "idle", NEW now, HoldsLease(w, now)
    PROVE  checker[w].check \in Checks /\ IsOpen(checker[w].check)
           /\ w \in CheckHolders(checker[w].check)
  BY DEF LeasesInv, CheckerLeases, HoldsLease, IsOpen, Open, CheckHolders

(* What a worker remembers after a fetch.                                    *)
LEMMA FetchedMemory ==
    ASSUME NEW r, r = [at |-> r.at, check |-> r.check, until |-> r.until, tag |-> r.tag,
                       body |-> r.body, answer |-> r.answer, no |-> r.no],
           NEW at, NEW tag, NEW body, NEW answer, NEW no, NEW q,
           q = [r EXCEPT !.at = at, !.tag = tag, !.body = body, !.answer = answer, !.no = no]
    PROVE  /\ q = [at |-> q.at, check |-> q.check, until |-> q.until, tag |-> q.tag,
                   body |-> q.body, answer |-> q.answer, no |-> q.no]
           /\ q.at = at /\ q.check = r.check /\ q.until = r.until /\ q.no = no
<1> DEFINE Fields == {"at", "check", "until", "tag", "body", "answer", "no"}
<1>1. r = [f \in Fields |-> r[f]]
  OBVIOUS
<1>2. q = [f \in Fields |-> q[f]]
  BY <1>1
<1>3. q.at = at /\ q.check = r.check /\ q.until = r.until /\ q.no = no
  BY <1>1
<1>4. q = [at |-> q.at, check |-> q.check, until |-> q.until, tag |-> q.tag,
           body |-> q.body, answer |-> q.answer, no |-> q.no]
  BY <1>2
<1>5. QED
  BY <1>3, <1>4

LEMMA FetchedRow ==
    ASSUME LeasesInv, NEW w \in Checkers, FetchSource(w)
    PROVE  \E row :
             /\ row = [at |-> row.at, check |-> row.check, until |-> row.until, tag |-> row.tag,
                       body |-> row.body, answer |-> row.answer, no |-> row.no]
             /\ row.at \in {"failed", "answered"} /\ row.no = fetches'
             /\ row.check = checker[w].check /\ row.until = checker[w].until
             /\ checker' = [checker EXCEPT ![w] = row]
<1> DEFINE s == check[checker[w].check].source
<1>1. PICK answer :
        checker' = [checker EXCEPT ![w] =
           [@ EXCEPT !.at = IF answer.kind = "error" THEN "failed" ELSE "answered",
                     !.tag = source[s].tag, !.body = source[s].body,
                     !.answer = answer, !.no = fetches']]
  BY DEF FetchSource
<1> DEFINE at == IF answer.kind = "error" THEN "failed" ELSE "answered"
           row == [checker[w] EXCEPT !.at = at, !.tag = source[s].tag, !.body = source[s].body,
                                     !.answer = answer, !.no = fetches']
<1>2. at \in {"failed", "answered"} /\ checker' = [checker EXCEPT ![w] = row]
  BY <1>1 DEF LeasesInv, CheckerShape
<1> HIDE DEF at, s
<1>3. checker[w] = [at |-> checker[w].at, check |-> checker[w].check,
                    until |-> checker[w].until, tag |-> checker[w].tag,
                    body |-> checker[w].body, answer |-> checker[w].answer,
                    no |-> checker[w].no]
  BY DEF LeasesInv, CheckerShape
<1>4. /\ row = [at |-> row.at, check |-> row.check, until |-> row.until, tag |-> row.tag,
                body |-> row.body, answer |-> row.answer, no |-> row.no]
      /\ row.at = at /\ row.check = checker[w].check /\ row.until = checker[w].until
      /\ row.no = fetches'
  <2>1. row = [checker[w] EXCEPT !.at = at, !.tag = source[s].tag, !.body = source[s].body,
                                 !.answer = answer, !.no = fetches']
    OBVIOUS
  <2> HIDE DEF row
  <2>2. QED
    BY <1>3, <2>1, FetchedMemory
<1> HIDE DEF row
<1>5. QED
  BY <1>2, <1>4

(* The steps of a worker that fetches, or ends its check.                    *)
LEMMA CheckerStepLeased ==
    ASSUME SourceInv, NEW w \in Checkers, CheckerStep(w) \/ CheckerCrash(w)
    PROVE  LeasesInv' /\ (CheckLeases!LeasedNext \/ UNCHANGED CheckLeases!leasedVars)
<1>1. CASE LeaseCheck(w)
  BY <1>1, LeaseCheckTakes DEF SourceInv
<1>2. CASE CheckerCrash(w)
  BY <1>2, WorkerRests DEF SourceInv, CheckerCrash
<1>3. CASE CompleteDryRun(w)
  <2>1. PICK c \in Checks : c = checker[w].check
    BY <1>3 DEF CompleteDryRun, SourceInv, LeasesInv, CheckerLeases
  <2>2. CASE check[c].state \in Closed
    BY <1>3, <2>1, <2>2, WorkerRests DEF SourceInv, CompleteDryRun
  <2>3. CASE check[c].state \notin Closed
    <3>1. IsOpen(c)
      BY <1>3, <2>1, <2>3 DEF CompleteDryRun, SourceInv, LeasesInv, CheckerLeases, IsOpen, Open
    <3>2. "dry_run_completed" \in Closed
      BY DEF Closed
    <3>3. QED
      BY <1>3, <2>1, <2>3, <3>1, <3>2, WorkerCloses DEF SourceInv, CompleteDryRun
  <2>4. QED
    BY <2>2, <2>3
<1>4. CASE FetchSource(w)
  <2>1. PICK row :
          /\ row = [at |-> row.at, check |-> row.check, until |-> row.until, tag |-> row.tag,
                    body |-> row.body, answer |-> row.answer, no |-> row.no]
          /\ row.at # "idle" /\ row.check = checker[w].check /\ row.until = checker[w].until
          /\ checker' = [checker EXCEPT ![w] = row]
    BY <1>4, FetchedRow DEF SourceInv
  <2>2. checker[w].at # "idle" /\ UNCHANGED <<check, sourceClock>>
    BY <1>4 DEF FetchSource
  <2>3. QED
    BY <2>1, <2>2, WorkerGoesOn DEF SourceInv
<1>5. CASE CallsDisabled(w)
  <2> DEFINE row == [checker[w] EXCEPT !.at = "disabled"]
  <2>1. checker' = [checker EXCEPT ![w] = row]
    BY <1>5 DEF CallsDisabled, SourceInv, LeasesInv, CheckerShape
  <2>2. row = [at |-> row.at, check |-> row.check, until |-> row.until, tag |-> row.tag,
               body |-> row.body, answer |-> row.answer, no |-> row.no]
        /\ row.at # "idle" /\ row.check = checker[w].check /\ row.until = checker[w].until
    BY DEF SourceInv, LeasesInv, CheckerShape
  <2>3. checker[w].at # "idle" /\ UNCHANGED <<check, sourceClock>>
    BY <1>5 DEF CallsDisabled
  <2> HIDE DEF row
  <2>4. QED
    BY <2>1, <2>2, <2>3, WorkerGoesOn DEF SourceInv
<1>6. CASE ApplyFetchResult(w)
  <2>1. checker[w].at # "idle" /\ checker' = [checker EXCEPT ![w] = Resting] /\ UNCHANGED sourceClock
    BY <1>6 DEF ApplyFetchResult, LeaseLost
  <2>2. CASE ~HoldsLease(w, sourceClock)
    BY <1>6, <2>1, <2>2, WorkerRests DEF SourceInv, ApplyFetchResult, LeaseLost
  <2>3. CASE HoldsLease(w, sourceClock)
    <3>1. PICK state \in Closed : check' = ClosedCheck(checker[w].check, w, state)
      BY <1>6, <2>3 DEF ApplyFetchResult, Closed
    <3>2. QED
      BY <2>1, <2>3, <3>1, HolderOf, WorkerCloses DEF SourceInv
  <2>4. QED
    BY <2>2, <2>3
<1>7. CASE RecordFailure(w)
  <2>1. PICK now :
          /\ checker[w].at # "idle" /\ checker' = [checker EXCEPT ![w] = Resting]
          /\ UNCHANGED sourceClock
          /\ IF HoldsLease(w, now) THEN check' = ClosedCheck(checker[w].check, w, "failed")
             ELSE UNCHANGED check
    BY <1>7 DEF RecordFailure, LeaseLost
  <2>2. CASE ~HoldsLease(w, now)
    BY <2>1, <2>2, WorkerRests DEF SourceInv
  <2>3. CASE HoldsLease(w, now)
    <3>1. "failed" \in Closed
      BY DEF Closed
    <3>2. QED
      BY <2>1, <2>3, <3>1, HolderOf, WorkerCloses DEF SourceInv
  <2>4. QED
    BY <2>2, <2>3
<1>8. QED
  BY <1>1, <1>2, <1>3, <1>4, <1>5, <1>6, <1>7 DEF CheckerStep

LEMMA SourceStepLeased ==
    ASSUME SourceInv, [SourceNext]_sourceVars
    PROVE  SourceInv' /\ [CheckLeases!LeasedNext]_CheckLeases!leasedVars
<1>1. ASSUME UNCHANGED <<check, checker>>, sourceClock' \in Nat
      PROVE  LeasesInv' /\ UNCHANGED CheckLeases!leasedVars
  <2>1. LeasesInv'
    BY <1>1 DEF SourceInv, LeasesInv, CheckShape, CheckerShape, CheckerLeases, CheckRunningUntil
  <2>2. QED
    BY <1>1, <2>1, CheckStays DEF SameCheck, CheckPhase, CheckHolders, IsOpen
<1>2. CASE UNCHANGED sourceVars
  BY <1>1, <1>2, PlanStep DEF sourceVars, SourceInv, LeasesInv
<1>3. CASE SourceTick
  BY <1>1, <1>3, PlanStep DEF SourceTick, SourceInv, LeasesInv
<1>4. ASSUME NEW s \in TrustedSources, CreateSource(s) \/ SwitchSource(s) \/ ChangePrefix(s)
      PROVE  LeasesInv' /\ UNCHANGED CheckLeases!leasedVars
  BY <1>1, <1>4 DEF CreateSource, SwitchSource, ChangePrefix, SourceInv, LeasesInv
<1>5. ASSUME NEW s \in TrustedSources, NEW isDry \in BOOLEAN, QueueByHand(s, isDry)
      PROVE  LeasesInv' /\ CheckLeases!LeasedNext
  BY <1>5, QueueEnters DEF QueueByHand, SourceInv
<1>6. CASE PlanChecks
  BY <1>1, <1>6, PlanStep DEF PlanChecks, SourceInv, LeasesInv
<1>7. CASE QueuePlanned
  <2>1. CASE source[Head(plan)[1]].enabled
    <3>1. Head(plan)[1] \in TrustedSources
      BY <1>7 DEF QueuePlanned, SourceInv, PlanTyped
    <3>2. QED
      BY <1>7, <2>1, <3>1, QueueEnters, PlanStep DEF QueuePlanned, SourceInv
  <2>2. CASE ~source[Head(plan)[1]].enabled
    BY <1>1, <1>7, <2>2, PlanStep DEF QueuePlanned, SourceInv, LeasesInv
  <2>3. QED
    BY <2>1, <2>2
<1>8. QED
  BY <1>2, <1>3, <1>4, <1>5, <1>6, <1>7, CheckerStepLeased, PlanStep DEF SourceNext, SourceInv

(* Every check is finished at most once, and by the worker that holds its      *)
(* lease unless it is a dry run.                                            *)
(* (_lease_next_run, _load_locked_run_and_source, _complete_dry_run)         *)
THEOREM ChecksImplementLeases == SourceSpec => ChecksAreLeased
<1>1. SourceInit => SourceInv
  BY SourceLeasesBegin DEF SourceInit, SourceInv, PlanTyped
<1>2. SourceInit => CheckLeases!LeasedInit
  <2>1. SUFFICES ASSUME SourceInit PROVE CheckLeases!LeasedInit
    OBVIOUS
  <2>2. \A c \in Checks : /\ check[c].state = "absent" /\ ~IsOpen(c) /\ check[c].by = None
                         /\ check[c].dry = FALSE
    BY <2>1 DEF SourceInit, IsOpen, Open
  <2>3. [c \in Checks |-> ~check[c].dry] = [c \in Checks |-> TRUE]
    BY <2>2
  <2>4. QED
    BY <2>2, <2>3 DEF CheckLeases!LeasedInit
<1>3. SourceInv /\ [SourceNext]_sourceVars =>
        SourceInv' /\ [CheckLeases!LeasedNext]_CheckLeases!leasedVars
  BY SourceStepLeased
<1>4. QED
  BY <1>1, <1>2, <1>3, PTL DEF SourceSpec, ChecksAreLeased, CheckLeases!LeasedSpec

-----------------------------------------------------------------------------
(* Answers are recorded in the order of the fetches: a source has one open    *)
(* check, and the answer of an open check's worker was fetched after the one   *)
(* recorded last.                                                           *)
OneOpenCheck ==
    \A c, d \in Checks :
        IsOpen(c) /\ IsOpen(d) /\ check[c].source = check[d].source => c = d

Answered(w) == checker[w].at \in {"failed", "answered"} /\ IsOpen(checker[w].check)
AnswersFresh ==
    \A w \in Checkers : Answered(w) =>
        /\ checker[w].no \in Nat /\ checker[w].no <= fetches
        /\ recorded[check[checker[w].check].source] <= checker[w].no

AnswersInv ==
    /\ SourceInv /\ OneOpenCheck /\ AnswersFresh
    /\ fetches \in Nat /\ recorded \in [TrustedSources -> Nat]
    /\ \A s \in TrustedSources : recorded[s] <= fetches

(* A worker with an answer has a row.                                        *)
LEMMA AnsweredCheck ==
    ASSUME LeasesInv, NEW w \in Checkers, checker[w].at # "idle"
    PROVE  checker[w].check \in Checks /\ check[checker[w].check].source \in TrustedSources
  BY DEF LeasesInv, CheckerLeases, CheckShape, Closed

(* What the properties read of the rows: which are open, of which source.    *)
SameOpenChecks ==
    \A c \in Checks : IsOpen(c)' => IsOpen(c) /\ check'[c].source = check[c].source

LEMMA OpenChecksKept ==
    ASSUME AnswersInv, SameOpenChecks, UNCHANGED <<recorded, fetches>>,
           \A w \in Checkers : \/ checker'[w] = checker[w]
                               \/ checker'[w].at \notin {"failed", "answered"}
    PROVE  OneOpenCheck' /\ AnswersFresh'
<1>1. OneOpenCheck'
  BY DEF AnswersInv, OneOpenCheck, SameOpenChecks
<1>2. AnswersFresh'
  <2>1. SUFFICES ASSUME NEW w \in Checkers, Answered(w)'
                 PROVE  /\ checker'[w].no \in Nat /\ checker'[w].no <= fetches'
                        /\ recorded'[check'[checker'[w].check].source] <= checker'[w].no
    BY DEF AnswersFresh
  <2>2. checker'[w] = checker[w] /\ checker[w].check \in Checks
    BY <2>1, AnsweredCheck DEF Answered, AnswersInv, SourceInv
  <2>3. Answered(w) /\ check'[checker[w].check].source = check[checker[w].check].source
    BY <2>1, <2>2 DEF Answered, SameOpenChecks, IsOpen
  <2>4. QED
    BY <2>2, <2>3 DEF AnswersInv, AnswersFresh
<1>3. QED
  BY <1>1, <1>2

LEMMA QueueKeepsAnswers ==
    ASSUME AnswersInv, NEW s, NEW isDry, NEW due,
           QueueCheck(s, isDry, due), UNCHANGED <<checker, recorded, fetches>>
    PROVE  OneOpenCheck' /\ AnswersFresh'
<1>1. CASE check' = check
  BY <1>1, OpenChecksKept DEF SameOpenChecks, IsOpen
<1>2. CASE check' # check
  <2>1. PICK c \in Checks :
          /\ check[c].state = "absent" /\ ~ActiveCheck(s)
          /\ check' = [d \in Checks |-> check'[d]]
          /\ check'[c] = [state |-> "queued", source |-> s, dry |-> isDry, due |-> due,
                          until |-> check[c].until, by |-> check[c].by]
          /\ \A d \in Checks \ {c} : check'[d] = check[d]
    <3>1. CheckShape
      BY DEF AnswersInv, SourceInv, LeasesInv
    <3>2. QED
      BY <1>2, <3>1, QueuedRow
  <2>2. \A d \in Checks \ {c} : IsOpen(d)' <=> IsOpen(d)
    BY <2>1 DEF IsOpen
  <2>3. \A d \in Checks \ {c} : IsOpen(d) => check[d].source # s
    BY <2>1 DEF ActiveCheck
  <2>4. OneOpenCheck'
    BY <2>1, <2>2, <2>3 DEF AnswersInv, OneOpenCheck
  <2>5. AnswersFresh'
    <3>1. SUFFICES ASSUME NEW w \in Checkers, Answered(w)'
                   PROVE  /\ checker[w].no \in Nat /\ checker[w].no <= fetches
                          /\ recorded[check'[checker[w].check].source] <= checker[w].no
      BY DEF AnswersFresh
    <3>2. checker[w].check \in Checks
      BY <3>1, AnsweredCheck DEF Answered, AnswersInv, SourceInv
    <3>3. checker[w].check # c
      BY <2>1, <3>1 DEF Answered, AnswersInv, SourceInv, LeasesInv, CheckerLeases, Closed
    <3>4. Answered(w) /\ check'[checker[w].check] = check[checker[w].check]
      BY <2>1, <2>2, <3>1, <3>2, <3>3 DEF Answered, IsOpen
    <3>5. QED
      BY <3>4 DEF AnswersInv, AnswersFresh
  <2>6. QED
    BY <2>4, <2>5
<1>3. QED
  BY <1>1, <1>2

(* A worker records its answer, or that it got none, and ends the check.      *)
LEMMA RecordKeepsAnswers ==
    ASSUME AnswersInv, NEW w \in Checkers, checker[w].at # "idle",
           NEW c \in Checks, c = checker[w].check, IsOpen(c), NEW state \in Closed,
           check' = ClosedCheck(c, w, state),
           checker' = [checker EXCEPT ![w] = Resting], UNCHANGED fetches,
           \/ UNCHANGED recorded
           \/ /\ checker[w].at \in {"failed", "answered"}
              /\ recorded' = [recorded EXCEPT ![check[c].source] = checker[w].no]
    PROVE  /\ OneOpenCheck' /\ AnswersFresh'
           /\ recorded' \in [TrustedSources -> Nat]
           /\ \A s \in TrustedSources : recorded'[s] <= fetches
           /\ \A s \in TrustedSources : recorded'[s] >= recorded[s]
<1>1. /\ check'[c].state = state
      /\ \A d \in Checks \ {c} : check'[d] = check[d]
  <2>1. CheckShape
    BY DEF AnswersInv, SourceInv, LeasesInv
  <2>2. /\ check' = [d \in Checks |-> check'[d]]
        /\ check'[c] = [state |-> state, source |-> check[c].source, dry |-> check[c].dry,
                        due |-> check[c].due, until |-> None, by |-> w]
        /\ \A d \in Checks \ {c} : check'[d] = check[d]
    BY <2>1, ClosedCheckRow
  <2>3. QED
    BY <2>2
<1>2. checker'[w] = Resting /\ \A v \in Checkers \ {w} : checker'[v] = checker[v]
  BY DEF AnswersInv, SourceInv, LeasesInv, CheckerShape
<1>3. ~IsOpen(c)'
  BY <1>1 DEF IsOpen, Open, Closed
<1>4. SameOpenChecks
  BY <1>1, <1>3 DEF SameOpenChecks, IsOpen
<1>5. CASE UNCHANGED recorded
  <2>1. OneOpenCheck' /\ AnswersFresh'
    BY <1>2, <1>4, <1>5, OpenChecksKept, RestingFields
  <2>2. QED
    BY <1>5, <2>1 DEF AnswersInv
<1>6. CASE /\ checker[w].at \in {"failed", "answered"}
           /\ recorded' = [recorded EXCEPT ![check[c].source] = checker[w].no]
  <2>1. PICK s \in TrustedSources : s = check[c].source
    BY AnsweredCheck DEF AnswersInv, SourceInv
  <2>2. checker[w].no \in Nat /\ checker[w].no <= fetches /\ recorded[s] <= checker[w].no
    BY <1>6, <2>1 DEF AnswersInv, AnswersFresh, Answered
  <2>3. /\ recorded' \in [TrustedSources -> Nat] /\ recorded'[s] = checker[w].no
        /\ \A t \in TrustedSources \ {s} : recorded'[t] = recorded[t]
    BY <1>6, <2>1, <2>2 DEF AnswersInv
  <2>4. \A t \in TrustedSources : recorded'[t] <= fetches /\ recorded'[t] >= recorded[t]
    BY <2>2, <2>3 DEF AnswersInv
  <2>5. OneOpenCheck'
    BY <1>4 DEF AnswersInv, OneOpenCheck, SameOpenChecks
  <2>6. AnswersFresh'
    <3>1. SUFFICES ASSUME NEW v \in Checkers, Answered(v)'
                   PROVE  /\ checker'[v].no \in Nat /\ checker'[v].no <= fetches'
                          /\ recorded'[check'[checker'[v].check].source] <= checker'[v].no
      BY DEF AnswersFresh
    <3>2. v # w /\ checker'[v] = checker[v] /\ checker[v].check \in Checks
      BY <1>2, <3>1, RestingFields, AnsweredCheck DEF Answered, AnswersInv, SourceInv
    <3>3. /\ Answered(v) /\ checker[v].check # c
          /\ check'[checker[v].check].source = check[checker[v].check].source
      BY <1>1, <1>3, <1>4, <3>1, <3>2 DEF Answered, SameOpenChecks, IsOpen
    <3>4. /\ check[checker[v].check].source # s
          /\ check[checker[v].check].source \in TrustedSources
      BY <2>1, <3>2, <3>3, AnsweredCheck DEF Answered, AnswersInv, SourceInv, OneOpenCheck
    <3>5. QED
      BY <2>3, <3>2, <3>3, <3>4 DEF AnswersInv, AnswersFresh
  <2>7. QED
    BY <2>3, <2>4, <2>5, <2>6
<1>7. QED
  BY <1>5, <1>6

LEMMA FetchKeepsAnswers ==
    ASSUME AnswersInv, NEW w \in Checkers, FetchSource(w)
    PROVE  OneOpenCheck' /\ AnswersFresh' /\ fetches' = fetches + 1 /\ UNCHANGED recorded
<1>1. PICK row :
        /\ row.at \in {"failed", "answered"} /\ row.no = fetches'
        /\ row.check = checker[w].check
        /\ checker' = [checker EXCEPT ![w] = row]
  BY FetchedRow DEF AnswersInv, SourceInv
<1>2. /\ fetches' = fetches + 1 /\ UNCHANGED <<recorded, check>> /\ checker[w].at # "idle"
      /\ checker'[w] = row /\ \A v \in Checkers \ {w} : checker'[v] = checker[v]
  BY <1>1 DEF FetchSource, AnswersInv, SourceInv, LeasesInv, CheckerShape
<1>3. OneOpenCheck'
  BY <1>2 DEF AnswersInv, OneOpenCheck, IsOpen
<1>4. check[checker[w].check].source \in TrustedSources
  BY <1>2, AnsweredCheck DEF AnswersInv, SourceInv
<1>5. AnswersFresh'
  <2>1. SUFFICES ASSUME NEW v \in Checkers, Answered(v)'
                 PROVE  /\ checker'[v].no \in Nat /\ checker'[v].no <= fetches'
                        /\ recorded[check[checker'[v].check].source] <= checker'[v].no
    BY <1>2 DEF AnswersFresh
  <2>2. CASE v = w
    BY <1>1, <1>2, <1>4, <2>2 DEF AnswersInv
  <2>3. CASE v # w
    BY <1>2, <2>1, <2>3 DEF AnswersInv, AnswersFresh, Answered, IsOpen
  <2>4. QED
    BY <2>2, <2>3
<1>6. QED
  BY <1>2, <1>3, <1>5

LEMMA LeaseKeepsAnswers ==
    ASSUME AnswersInv, NEW w \in Checkers, LeaseCheck(w)
    PROVE  OneOpenCheck' /\ AnswersFresh' /\ UNCHANGED <<recorded, fetches>>
<1> DEFINE until == sourceClock + CheckLease
<1>1. PICK c \in Checks :
        /\ IsOpen(c)
        /\ check' = [check EXCEPT ![c] = [@ EXCEPT !.state = "running", !.until = until]]
        /\ checker' = [checker EXCEPT ![w] =
                           [Resting EXCEPT !.at = "leased", !.check = c, !.until = until]]
  BY DEF LeaseCheck
<1>2. /\ check'[c].source = check[c].source
      /\ \A d \in Checks \ {c} : check'[d] = check[d]
  <2>1. CheckShape
    BY DEF AnswersInv, SourceInv, LeasesInv
  <2>2. /\ check' = [d \in Checks |-> check'[d]]
        /\ check'[c] = [state |-> "running", source |-> check[c].source, dry |-> check[c].dry,
                        due |-> check[c].due, until |-> until, by |-> check[c].by]
        /\ \A d \in Checks \ {c} : check'[d] = check[d]
    BY <1>1, <2>1, LeasedCheckRow
  <2>3. QED
    BY <2>2
<1>3. /\ checker'[w].at = "leased"
      /\ \A v \in Checkers \ {w} : checker'[v] = checker[v]
  BY <1>1 DEF AnswersInv, SourceInv, LeasesInv, CheckerShape, Resting
<1>4. SameOpenChecks /\ UNCHANGED <<recorded, fetches>>
  BY <1>1, <1>2 DEF SameOpenChecks, IsOpen, LeaseCheck
<1>5. QED
  BY <1>3, <1>4, OpenChecksKept

AnswersStepGoal ==
    /\ OneOpenCheck' /\ AnswersFresh'
    /\ fetches' \in Nat /\ recorded' \in [TrustedSources -> Nat]
    /\ \A s \in TrustedSources : recorded'[s] <= fetches' /\ recorded'[s] >= recorded[s]

LEMMA CheckerKeepsAnswers ==
    ASSUME AnswersInv, NEW w \in Checkers, CheckerStep(w) \/ CheckerCrash(w)
    PROVE  AnswersStepGoal
<1>1. ASSUME OneOpenCheck', AnswersFresh', UNCHANGED recorded, fetches' \in {fetches, fetches + 1}
      PROVE  AnswersStepGoal
  BY <1>1 DEF AnswersInv, AnswersStepGoal
<1>2. CASE LeaseCheck(w)
  BY <1>1, <1>2, LeaseKeepsAnswers
<1>3. CASE FetchSource(w)
  BY <1>1, <1>3, FetchKeepsAnswers
<1>4. ASSUME UNCHANGED <<check, recorded, fetches>>, checker' = [checker EXCEPT ![w] = Resting]
      PROVE  AnswersStepGoal
  <2>1. checker'[w] = Resting /\ \A v \in Checkers \ {w} : checker'[v] = checker[v]
    BY <1>4 DEF AnswersInv, SourceInv, LeasesInv, CheckerShape
  <2>2. SameOpenChecks
    BY <1>4 DEF SameOpenChecks, IsOpen
  <2>3. OneOpenCheck' /\ AnswersFresh'
    BY <1>4, <2>1, <2>2, OpenChecksKept, RestingFields
  <2>4. QED
    BY <1>1, <1>4, <2>3
<1>5. CASE CheckerCrash(w)
  BY <1>4, <1>5 DEF CheckerCrash
<1>6. CASE CallsDisabled(w)
  <2>1. /\ checker'[w].at = "disabled" /\ UNCHANGED <<check, recorded, fetches>>
        /\ \A v \in Checkers \ {w} : checker'[v] = checker[v]
    BY <1>6 DEF CallsDisabled, AnswersInv, SourceInv, LeasesInv, CheckerShape
  <2>2. SameOpenChecks
    BY <2>1 DEF SameOpenChecks, IsOpen
  <2>3. QED
    BY <1>1, <2>1, <2>2, OpenChecksKept
<1>7. CASE CompleteDryRun(w)
  <2>1. PICK c \in Checks : c = checker[w].check
    BY <1>7 DEF CompleteDryRun, AnswersInv, SourceInv, LeasesInv, CheckerLeases
  <2>2. CASE check[c].state \in Closed
    BY <1>4, <1>7, <2>1, <2>2 DEF CompleteDryRun
  <2>3. CASE check[c].state \notin Closed
    <3>1. IsOpen(c)
      BY <1>7, <2>1, <2>3
      DEF CompleteDryRun, AnswersInv, SourceInv, LeasesInv, CheckerLeases, IsOpen, Open
    <3>2. "dry_run_completed" \in Closed
      BY DEF Closed
    <3>3. /\ OneOpenCheck' /\ AnswersFresh'
      BY <1>7, <2>1, <2>3, <3>1, <3>2, RecordKeepsAnswers DEF CompleteDryRun
    <3>4. QED
      BY <1>1, <1>7, <3>3 DEF CompleteDryRun
  <2>4. QED
    BY <2>2, <2>3
<1>8. ASSUME NEW now, HoldsLease(w, now), checker[w].at # "idle", NEW state \in Closed,
             check' = ClosedCheck(checker[w].check, w, state),
             checker' = [checker EXCEPT ![w] = Resting], UNCHANGED fetches,
             \/ UNCHANGED recorded
             \/ /\ checker[w].at \in {"failed", "answered"}
                /\ recorded' = [recorded EXCEPT ![check[checker[w].check].source] = checker[w].no]
      PROVE  AnswersStepGoal
  <2>1. PICK c \in Checks : c = checker[w].check /\ IsOpen(c)
    BY <1>8, HolderOf DEF AnswersInv, SourceInv
  <2>2. /\ OneOpenCheck' /\ AnswersFresh'
        /\ recorded' \in [TrustedSources -> Nat]
        /\ \A s \in TrustedSources : recorded'[s] <= fetches
        /\ \A s \in TrustedSources : recorded'[s] >= recorded[s]
    BY <1>8, <2>1, RecordKeepsAnswers
  <2>3. QED
    BY <1>8, <2>2 DEF AnswersInv, AnswersStepGoal
<1>9. CASE ApplyFetchResult(w)
  <2>1. CASE ~HoldsLease(w, sourceClock)
    BY <1>4, <1>9, <2>1 DEF ApplyFetchResult, LeaseLost
  <2>2. CASE HoldsLease(w, sourceClock)
    <3>1. PICK state \in Closed : check' = ClosedCheck(checker[w].check, w, state)
      BY <1>9, <2>2 DEF ApplyFetchResult, Closed
    <3>2. /\ checker[w].at = "answered" /\ checker' = [checker EXCEPT ![w] = Resting]
          /\ UNCHANGED fetches
          /\ recorded' = [recorded EXCEPT ![check[checker[w].check].source] = checker[w].no]
      BY <1>9, <2>2 DEF ApplyFetchResult
    <3>3. QED
      BY <1>8, <2>2, <3>1, <3>2
  <2>3. QED
    BY <2>1, <2>2
<1>10. CASE RecordFailure(w)
  <2>1. PICK now :
          /\ checker[w].at \in {"failed", "disabled"} /\ checker' = [checker EXCEPT ![w] = Resting]
          /\ UNCHANGED fetches
          /\ IF HoldsLease(w, now)
             THEN /\ check' = ClosedCheck(checker[w].check, w, "failed")
                  /\ recorded' = IF checker[w].at = "failed"
                                 THEN [recorded EXCEPT ![check[checker[w].check].source] =
                                          checker[w].no]
                                 ELSE recorded
             ELSE UNCHANGED <<check, recorded>>
    BY <1>10 DEF RecordFailure, LeaseLost
  <2>2. CASE ~HoldsLease(w, now)
    BY <1>4, <2>1, <2>2
  <2>3. CASE HoldsLease(w, now)
    <3>1. "failed" \in Closed
      BY DEF Closed
    <3>2. QED
      BY <1>8, <2>1, <2>3, <3>1
  <2>4. QED
    BY <2>2, <2>3
<1>11. QED
  BY <1>2, <1>3, <1>5, <1>6, <1>7, <1>9, <1>10 DEF CheckerStep

LEMMA AnswersStep ==
    ASSUME AnswersInv, [SourceNext]_sourceVars
    PROVE  AnswersInv' /\ \A s \in TrustedSources : recorded'[s] >= recorded[s]
<1>1. SourceInv'
  BY SourceStepLeased DEF AnswersInv
<1>2. ASSUME UNCHANGED <<check, checker, recorded, fetches>> PROVE AnswersStepGoal
  BY <1>2 DEF AnswersInv, AnswersStepGoal, OneOpenCheck, AnswersFresh, Answered, IsOpen
<1>3. ASSUME NEW s, NEW isDry, NEW due, QueueCheck(s, isDry, due),
             UNCHANGED <<checker, recorded, fetches>>
      PROVE  AnswersStepGoal
  BY <1>3, QueueKeepsAnswers DEF AnswersInv, AnswersStepGoal
<1>4. ASSUME QueuePlanned PROVE AnswersStepGoal
  BY <1>2, <1>3, <1>4 DEF QueuePlanned
<1>5. ASSUME NEW s \in TrustedSources,
             \/ CreateSource(s) \/ SwitchSource(s) \/ ChangePrefix(s)
             \/ \E isDry \in BOOLEAN : QueueByHand(s, isDry)
      PROVE  AnswersStepGoal
  BY <1>2, <1>3, <1>5 DEF CreateSource, SwitchSource, ChangePrefix, QueueByHand
<1>6. ASSUME PlanChecks \/ SourceTick \/ UNCHANGED sourceVars PROVE AnswersStepGoal
  BY <1>2, <1>6 DEF PlanChecks, SourceTick, sourceVars
<1>7. AnswersStepGoal
  BY <1>4, <1>5, <1>6, CheckerKeepsAnswers DEF SourceNext
<1>8. QED
  BY <1>1, <1>7 DEF AnswersInv, AnswersStepGoal

(* A worker that was slow never records its older answer of a source over a   *)
(* newer one, whoever took its check over.                                   *)
(* (_load_locked_run_and_source, the index over open runs)                   *)
THEOREM AnswersRecordedInOrder == SourceSpec => AnswersInOrder
<1>1. SourceInit => AnswersInv
  <2>1. SUFFICES ASSUME SourceInit PROVE AnswersInv
    OBVIOUS
  <2>2. SourceInv
    BY <2>1, SourceLeasesBegin DEF SourceInit, SourceInv, PlanTyped
  <2>3. OneOpenCheck
    BY <2>1 DEF SourceInit, OneOpenCheck, IsOpen, Open
  <2>4. AnswersFresh
    BY <2>1, RestingFields DEF SourceInit, AnswersFresh, Answered
  <2>5. QED
    BY <2>1, <2>2, <2>3, <2>4 DEF SourceInit, AnswersInv
<1>2. AnswersInv /\ [SourceNext]_sourceVars => AnswersInv'
  BY AnswersStep
<1>3. AnswersInv /\ [SourceNext]_sourceVars =>
        [\A s \in TrustedSources : recorded'[s] >= recorded[s]]_sourceVars
  BY AnswersStep
<1>4. QED
  BY <1>1, <1>2, <1>3, PTL DEF SourceSpec, AnswersInOrder
=============================================================================
