--------------------------- MODULE WatchSchedule ----------------------------
(***************************************************************************)
(* Periodic checks of the companies members follow (watchlist_monitoring.py)*)
(* A scheduler lists the due companies, then locks each, looks again and     *)
(* queues a research job or joins the one under way.  A job that ends, also  *)
(* a manual one, sets the next check in the transaction that ends it, and    *)
(* the worker records the same outcome once more after the commit.           *)
(* Leases and budgets of the jobs are in WebResearchJob: here a job is        *)
(* taken, runs and ends.                                                     *)
(***************************************************************************)
EXTENDS Integers, FiniteSets, FiniteSetsExt

CONSTANTS
    Watched,            \* companies
    Schedulers,         \* concurrent runs of queue_watchlist_checks.py
    CheckJobMax,        \* bound: research jobs ever made
    CheckWorkers,       \* number of web workers
    WatchInterval, WatchIntervalMax,
    NoChangeAfter,      \* no_change_backoff_after
    WatchCooldown,
    FailureWaitMax,     \* failure_backoff_max_days
    BatchMax,           \* max_companies_per_run
    WatchClockEnd       \* bound of the clock

ASSUME WatchAssumption ==
    /\ IsFiniteSet(Watched)
    /\ {WatchInterval, WatchIntervalMax, NoChangeAfter, WatchCooldown, FailureWaitMax, BatchMax}
            \subseteq Nat \ {0}
    /\ {CheckJobMax, CheckWorkers, WatchClockEnd} \subseteq Nat

VARIABLES
    followed,       \* whether an active member follows the company
    schedule,       \* CompanyWatchSchedule
    checkJob,       \* CompanyResearchJob, by number
    repeats,        \* outcomes a worker is about to record a second time
    scheduler,      \* the schedulers' local state
    watchClock

watchVars == <<followed, schedule, checkJob, repeats, scheduler, watchClock>>

Never == -1
CheckJobs == 1 .. CheckJobMax
ActiveWatchJob == {"queued", "running", "budget_deferred"}      \* queued: also partial
EndedCheck == {"completed", "failed", "cancelled", "budget_deferred"}

NoKey == [job |-> 0, status |-> "none", heart |-> Never]
NoSchedule ==
    [row |-> FALSE, next |-> 0, cooldown |-> Never, success |-> Never, failures |-> 0,
     unchanged |-> 0, lastJob |-> 0, lastKey |-> NoKey]
NoCheck == [status |-> "absent", company |-> {}, trigger |-> "manual",
            heart |-> Never]
SchedulerFree == [doing |-> "idle", selected |-> {}, now |-> 0]

WatchHorizon == WatchClockEnd + WatchIntervalMax + FailureWaitMax + WatchCooldown

WatchTypeOK ==
    /\ followed \in [Watched -> BOOLEAN]
    /\ \A c \in Watched :
          /\ schedule[c].next \in 0 .. WatchHorizon
          /\ schedule[c].cooldown \in Never .. WatchHorizon
          /\ {schedule[c].failures, schedule[c].unchanged} \subseteq Nat
          /\ schedule[c].lastJob \in 0 .. CheckJobMax
    /\ \A j \in CheckJobs :
          /\ checkJob[j].status \in ActiveWatchJob \cup EndedCheck \cup {"absent"}
          /\ checkJob[j].heart \in Never .. WatchClockEnd
    /\ \A s \in Schedulers : scheduler[s].selected \subseteq Watched
    /\ watchClock \in 0 .. WatchClockEnd

WatchInit ==
    /\ followed = [c \in Watched |-> FALSE]
    /\ schedule = [c \in Watched |-> NoSchedule]
    /\ checkJob = [j \in CheckJobs |-> NoCheck]
    /\ repeats = {}
    /\ scheduler = [s \in Schedulers |-> SchedulerFree]
    /\ watchClock = 0
-----------------------------------------------------------------------------
Least(a, b) == Min({a, b})
Greatest(S) == Max(S)

(* due_at: a follow is due at once, later what the last outcomes set.       *)
IsTarget(c) == followed[c]
DueBy(c, time) == schedule[c].row => schedule[c].next <= time /\ schedule[c].cooldown <= time

IntervalAfter(unchanged) ==
    Least(WatchInterval * 2 ^ Least(unchanged \div NoChangeAfter, 8), WatchIntervalMax)

FailureWait(failures) == Least(WatchCooldown * 2 ^ Least(failures - 1, 10), FailureWaitMax)

JobsOf(c) == {j \in CheckJobs : checkJob[j].company = {c}}
ActiveJobs(c) == {j \in JobsOf(c) : checkJob[j].status \in ActiveWatchJob}
NextCheckJob == 1 + Cardinality({j \in CheckJobs : checkJob[j].status # "absent"})
-----------------------------------------------------------------------------
(* record_outcome: result is what the ended job shows; found is the time of *)
(* its oldest category check, changed what it says of the company.          *)
WithOutcome(row, key, good, found, changed) ==
    LET seen == [row EXCEPT !.lastKey = key, !.lastJob = key.job]
        newer == row.success = Never \/ found > row.success
        calm == IF ~newer THEN row.unchanged ELSE IF changed THEN 0 ELSE row.unchanged + 1
        failed == row.failures + 1
    IN  IF ~row.row \/ row.lastKey = key THEN row
        ELSE IF good
        THEN [seen EXCEPT
                !.success = IF newer THEN found ELSE row.success,
                !.unchanged = calm, !.failures = 0,
                !.cooldown = watchClock + WatchCooldown,
                !.next = Greatest({watchClock + WatchCooldown, found + IntervalAfter(calm)})]
        ELSE [seen EXCEPT
                !.failures = failed,
                !.next = watchClock + FailureWait(failed),
                !.cooldown = watchClock + FailureWait(failed)]

-----------------------------------------------------------------------------
Follow(c) ==
    /\ followed' = [followed EXCEPT ![c] = ~@]      \* or the last follower leaves
    /\ UNCHANGED <<schedule, checkJob, repeats, scheduler, watchClock>>

(* At most BatchMax of the due companies, the earliest ones in the code.    *)
ListDue(s) ==
    LET due == {c \in Watched : IsTarget(c) /\ DueBy(c, watchClock)} IN
    /\ scheduler[s].doing = "idle" /\ due # {}
    /\ \E chosen \in kSubset(Least(Cardinality(due), BatchMax), due) :
          scheduler' = [scheduler EXCEPT ![s] =
                [doing |-> "listed", selected |-> chosen, now |-> watchClock]]
    /\ UNCHANGED <<followed, schedule, checkJob, repeats, watchClock>>

(* Mutant: whether it is due is not looked at again.                         *)
StillFollowed(s, c) == IsTarget(c)
(* Under the company locks: only what is still followed and still due.      *)
StillDue(s, c) == IsTarget(c) /\ DueBy(c, scheduler[s].now)

QueueDue(s) ==
    LET due == {c \in scheduler[s].selected : StillDue(s, c)}
        new == {c \in due : ActiveJobs(c) = {}}
        last == NextCheckJob + Cardinality(new) - 1
    IN
    /\ scheduler[s].doing = "listed"
    /\ last <= CheckJobMax
    /\ \E job \in [due -> CheckJobs] :
          /\ \A c \in due \ new : job[c] \in ActiveJobs(c)
          /\ {job[c] : c \in new} = NextCheckJob .. last
          /\ checkJob' = [j \in CheckJobs |->
                IF j \in NextCheckJob .. last
                THEN [NoCheck EXCEPT !.status = "queued", !.trigger = "watchlist",
                                     !.company = {c \in new : job[c] = j}]
                ELSE checkJob[j]]
          /\ schedule' = [c \in Watched |->
                IF c \in due THEN [schedule[c] EXCEPT !.row = TRUE, !.lastJob = job[c]]
                ELSE schedule[c]]
    /\ scheduler' = [scheduler EXCEPT ![s] = SchedulerFree]
    /\ UNCHANGED <<followed, repeats, watchClock>>

(* A member's own request makes a job when none is under way.               *)
QueueManual(c) ==
    /\ ActiveJobs(c) = {} /\ NextCheckJob <= CheckJobMax
    /\ checkJob' = [checkJob EXCEPT ![NextCheckJob] =
            [NoCheck EXCEPT !.status = "queued", !.company = {c}]]
    /\ UNCHANGED <<followed, schedule, repeats, scheduler, watchClock>>

(* A member's cancellation ends a job that does not run, recording nothing. *)
CancelQueued(j) ==
    /\ checkJob[j].status \in ActiveWatchJob \ {"running"}
    /\ checkJob' = [checkJob EXCEPT ![j].status = "cancelled", ![j].heart = Never]
    /\ UNCHANGED <<followed, schedule, repeats, scheduler, watchClock>>
-----------------------------------------------------------------------------
OwnerOf(j) == CHOOSE c \in Watched : checkJob[j].company = {c}
Watching(j) == checkJob[j].trigger = "watchlist"

(* The outcome is recorded with the end of the job, and once more later.    *)
Record(j, status, heart, good, found, changed) ==
    LET c == OwnerOf(j)
        key == [job |-> j, status |-> status, heart |-> heart]
        row == WithOutcome(schedule[c], key, good, found, changed)
    IN
    /\ schedule' = [schedule EXCEPT ![c] = row]
    /\ repeats' = repeats \cup
            {[key |-> key, good |-> good, found |-> found, changed |-> changed]}

(* A worker runs a job, then records its outcome again.                     *)
BusyWorkers ==
    Cardinality({j \in CheckJobs : checkJob[j].status = "running"}) + Cardinality(repeats)

(* _lease_job: a watch job waits for the cooldown; one nobody follows any    *)
(* more is cancelled instead.                                               *)
TakeCheck(j) ==
    LET c == OwnerOf(j) IN
    /\ checkJob[j].status \in {"queued", "budget_deferred"}
    /\ BusyWorkers < CheckWorkers
    /\ Watching(j) => schedule[c].cooldown <= watchClock
    /\ IF Watching(j) /\ ~IsTarget(c)
       THEN /\ checkJob' = [checkJob EXCEPT ![j].status = "cancelled", ![j].heart = Never]
            /\ Record(j, "cancelled", Never, FALSE, 0, FALSE)
       ELSE /\ checkJob' = [checkJob EXCEPT ![j].status = "running"]
            /\ UNCHANGED <<schedule, repeats>>
    /\ UNCHANGED <<followed, scheduler, watchClock>>

(* A step that leaves the job unfinished.                                   *)
PauseCheck(j) ==
    /\ checkJob[j].status = "running"
    /\ checkJob' = [checkJob EXCEPT ![j].status = "queued"]
    /\ UNCHANGED <<followed, schedule, repeats, scheduler, watchClock>>

(* The end of a job: its categories were all checked, or not; it failed,    *)
(* was stopped, or waits for the budget.                                    *)
EndCheck(j) ==
    /\ checkJob[j].status = "running"
    /\ \E status \in EndedCheck :
          LET heart == IF status = "cancelled" THEN Never ELSE watchClock IN
          /\ checkJob' = [checkJob EXCEPT ![j].status = status, ![j].heart = heart]
          /\ \/ Record(j, status, heart, FALSE, 0, FALSE)
             \/ /\ status = "completed"
                /\ \E found \in {0, watchClock}, changed \in BOOLEAN :
                      Record(j, status, heart, TRUE, found, changed)
    /\ UNCHANGED <<followed, scheduler, watchClock>>

RepeatRecord ==
    \E r \in repeats :
        LET c == OwnerOf(r.key.job) IN
        /\ schedule' = [schedule EXCEPT ![c] =
                WithOutcome(schedule[c], r.key, r.good, r.found, r.changed)]
        /\ repeats' = repeats \ {r}
        /\ UNCHANGED <<followed, checkJob, scheduler, watchClock>>

(* The worker dies before the second recording.                             *)
LoseRepeat ==
    \E r \in repeats :
        /\ repeats' = repeats \ {r}
        /\ UNCHANGED <<followed, schedule, checkJob, scheduler, watchClock>>

WatchTick ==
    /\ watchClock < WatchClockEnd
    /\ watchClock' = watchClock + 1
    /\ UNCHANGED <<followed, schedule, checkJob, repeats, scheduler>>

WatchNext ==
    \/ \E c \in Watched : Follow(c) \/ QueueManual(c)
    \/ \E s \in Schedulers : ListDue(s) \/ QueueDue(s)
    \/ \E j \in CheckJobs :
          CancelQueued(j) \/ TakeCheck(j) \/ PauseCheck(j) \/ EndCheck(j)
    \/ RepeatRecord \/ LoseRepeat \/ WatchTick

WatchSpec == WatchInit /\ [][WatchNext]_watchVars
-----------------------------------------------------------------------------
(* A new watch job is made only a cooldown after the last recorded end of a *)
(* job of the company, also when two schedulers listed it before that end    *)
(* (queue_due_watch_checks looks again under the company lock).             *)
ChecksSpaced ==
    [][\A j, k \in CheckJobs :
          (/\ checkJob[j].status = "absent" /\ checkJob'[j].status = "queued"
           /\ checkJob'[j].trigger = "watchlist"
           /\ checkJob[k].company = checkJob'[j].company
           /\ checkJob[k].heart # Never
           /\ schedule[OwnerOf(k)].lastKey.job = k)
              => watchClock >= checkJob[k].heart + WatchCooldown]_watchVars
=============================================================================
