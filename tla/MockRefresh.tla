----------------------------- MODULE MockRefresh -----------------------------
(***************************************************************************)
(* The refresh jobs of one company for one tenant: users ask for a refresh,  *)
(* which merges with a job that is open or still cooling down                *)
(* (services.py, _create_or_merge_refresh_job), and mock workers lease and   *)
(* complete the jobs (worker.py).                                            *)
(*                                                                         *)
(* A request reads, then inserts; a worker leases, then completes.  Others   *)
(* may commit in between.                                                   *)
(***************************************************************************)
EXTENDS Naturals, FiniteSets

CONSTANTS
    Refreshers,     \* sessions that ask for a refresh
    MockWorkers,    \* processes of run_mock_worker.py
    RefreshLimit,   \* bound: rows of refresh_jobs
    RefreshClockEnd, \* bound: the clock stops here
    Cooldown,       \* request_cooldown_hours
    MockLease,      \* mock_worker_lease_seconds
    NoWorker, NoTime

RefreshJobs == 1 .. RefreshLimit    \* in the order of created_at
RefreshTimes == 0 .. RefreshClockEnd

ASSUME RefreshAssumption ==
    /\ RefreshLimit \in Nat /\ RefreshClockEnd \in Nat
    /\ Cooldown \in Nat \ {0} /\ MockLease \in Nat \ {0}
    /\ NoWorker \notin MockWorkers /\ NoTime \notin Nat

VARIABLES
    refreshClock,   \* utc_now
    refresh,        \* [RefreshJobs -> row of refresh_jobs]
    refresher,      \* [Refreshers -> the moment a request began, once it has read]
    mock,           \* [MockWorkers -> [job, until]]: the lease a worker remembers
    snapshotChecked \* the company snapshot's last_checked_at

refreshVars == <<refreshClock, refresh, refresher, mock, snapshotChecked>>

RefreshRow == [state : {"absent", "queued", "running", "completed"},
               created : {NoTime} \cup RefreshTimes,   \* created_at
               bucket : {NoTime} \cup RefreshTimes,    \* of idempotency_key
               cooling : {NoTime} \cup Nat,            \* cooldown_until
               until : {NoTime} \cup Nat,              \* leased_until
               by : MockWorkers \cup {NoWorker}]       \* history, who completed it

RefreshInit ==
    /\ refreshClock = 0
    /\ refresh = [j \in RefreshJobs |-> [state |-> "absent", created |-> NoTime,
                        bucket |-> NoTime, cooling |-> NoTime, until |-> NoTime, by |-> NoWorker]]
    /\ refresher = [q \in Refreshers |-> NoTime]
    /\ mock = [w \in MockWorkers |-> [job |-> 0, until |-> NoTime]]
    /\ snapshotChecked = NoTime

OpenRefresh(j) == refresh[j].state \in {"queued", "running"}
(* _refresh_merge_candidate *)
MergeCandidate(now) ==
    \E j \in RefreshJobs :
        OpenRefresh(j) \/ (refresh[j].state = "completed" /\ refresh[j].cooling > now)
Bucket(now) == now \div Cooldown

(* A request that finds nothing to merge with goes on to insert a job.       *)
ReadRefresh(q) ==
    /\ refresher[q] = NoTime
    /\ ~MergeCandidate(refreshClock)
    /\ refresher' = [refresher EXCEPT ![q] = refreshClock]
    /\ UNCHANGED <<refreshClock, refresh, mock, snapshotChecked>>

(* Mutant: a request merges with open jobs only.                             *)
MergesOpenOnly(j, now) == OpenRefresh(j)
Merges(j, now) == OpenRefresh(j) \/ refresh[j].bucket = Bucket(now)
(* The insert merges as well, with the row that has the key of its cooldown  *)
(* bucket, or with the one that is open: a unique index refuses a second.    *)
InsertRefresh(q) ==
    LET now == refresher[q] IN
    /\ now # NoTime
    /\ IF \E j \in RefreshJobs : Merges(j, now)
       THEN UNCHANGED refresh
       ELSE \E j \in RefreshJobs :
              /\ refresh[j].state = "absent" /\ \A i \in 1 .. j - 1 : refresh[i].state # "absent"
              /\ refresh' = [refresh EXCEPT ![j] = [@ EXCEPT !.state = "queued",
                                !.created = refreshClock, !.bucket = Bucket(now), !.cooling = now + Cooldown]]
    /\ refresher' = [refresher EXCEPT ![q] = NoTime]
    /\ UNCHANGED <<refreshClock, mock, snapshotChecked>>

(* _lease_next_job *)
LeaseRefresh(w) ==
    /\ mock[w].job = 0
    /\ \E j \in RefreshJobs :
          /\ \/ refresh[j].state = "queued"
             \/ refresh[j].state = "running" /\ refresh[j].until <= refreshClock
          /\ refresh' = [refresh EXCEPT ![j] = [@ EXCEPT !.state = "running",
                                                         !.until = refreshClock + MockLease]]
          /\ mock' = [mock EXCEPT ![w] = [job |-> j, until |-> refreshClock + MockLease]]
    /\ UNCHANGED <<refreshClock, refresher, snapshotChecked>>

(* Mutant: the snapshot is dated with the end of the lease.                  *)
CheckedAtExpiry(w) == mock[w].until
CheckedAt(w) == mock[w].until - MockLease

(* Mutant: the lease is not compared with the row's.                         *)
SeesRunning(w) == refresh[mock[w].job].state = "running"
HoldsRefresh(w) ==
    refresh[mock[w].job].state = "running" /\ refresh[mock[w].job].until = mock[w].until
(* _complete_job, with the clock of the moment it was leased: what is        *)
(* compared with the row is the lease, under the row's lock.                 *)
CompleteRefresh(w) ==
    LET j == mock[w].job  now == CheckedAt(w) IN
    /\ j # 0
    /\ IF HoldsRefresh(w)
       THEN /\ refresh' = [refresh EXCEPT ![j] = [@ EXCEPT !.state = "completed",
                                                          !.until = NoTime, !.by = w]]
            /\ snapshotChecked' = now
       ELSE UNCHANGED <<refresh, snapshotChecked>>
    /\ mock' = [mock EXCEPT ![w] = [job |-> 0, until |-> NoTime]]
    /\ UNCHANGED <<refreshClock, refresher>>

MockCrash(w) ==
    /\ mock[w].job # 0
    /\ mock' = [mock EXCEPT ![w] = [job |-> 0, until |-> NoTime]]
    /\ UNCHANGED <<refreshClock, refresh, refresher, snapshotChecked>>

RefreshTick ==
    /\ refreshClock < RefreshClockEnd
    /\ refreshClock' = refreshClock + 1
    /\ UNCHANGED <<refresh, refresher, mock, snapshotChecked>>

RefreshNext ==
    \/ \E q \in Refreshers : ReadRefresh(q) \/ InsertRefresh(q)
    \/ \E w \in MockWorkers : LeaseRefresh(w) \/ CompleteRefresh(w) \/ MockCrash(w)
    \/ RefreshTick

RefreshSpec == RefreshInit /\ [][RefreshNext]_refreshVars

-----------------------------------------------------------------------------
RefreshTypeOK ==
    /\ refreshClock \in RefreshTimes
    /\ refresh \in [RefreshJobs -> RefreshRow]
    /\ refresher \in [Refreshers -> {NoTime} \cup RefreshTimes]
    /\ mock \in [MockWorkers -> [job : {0} \cup RefreshJobs, until : {NoTime} \cup Nat]]
    /\ snapshotChecked \in {NoTime} \cup RefreshTimes

(* Requests that race get one refresh per cooldown: of two jobs the later was *)
(* asked for after the cooldown of the earlier.  The exception is a slow       *)
(* request that read before the earlier job was inserted, in another cooldown  *)
(* bucket.  (_create_or_merge_refresh_job: the read without a lock, the unique *)
(* index over open jobs, the key that names the bucket)                       *)
OneRefreshPerCooldown ==
    \A i, j \in RefreshJobs : i < j /\ refresh[j].state # "absent" =>
        LET asked == refresh[j].cooling - Cooldown IN
        \/ asked >= refresh[i].cooling
        \/ asked <= refresh[i].created /\ refresh[j].bucket # refresh[i].bucket

(* A refresh job is completed once, by the worker that holds its lease.      *)
(* (_complete_job)                                                          *)
RefreshLeases == INSTANCE LeasedJob WITH
    Tasks <- RefreshJobs, Holders <- MockWorkers, Nobody <- NoWorker,
    phase <- [j \in RefreshJobs |-> IF refresh[j].state = "absent" THEN "absent"
                                    ELSE IF OpenRefresh(j) THEN "open" ELSE "closed"],
    holding <- [j \in RefreshJobs |->
        {w \in MockWorkers : OpenRefresh(j) /\ mock[w].job = j /\ mock[w].until = refresh[j].until}],
    guarded <- [j \in RefreshJobs |-> TRUE],
    finisher <- [j \in RefreshJobs |-> refresh[j].by]
RefreshesAreLeased == RefreshLeases!LeasedSpec
=============================================================================
