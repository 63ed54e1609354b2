--------------------------- MODULE WebResearchJob ---------------------------
(***************************************************************************)
(* The life of the on-demand research jobs of one company: users submit    *)
(* and cancel requests, a worker (web_research_service.py,                  *)
(* run_web_research_worker_once) joins them to a job, leases it, runs one   *)
(* stage of it and saves, an administrator reconciles calls whose outcome   *)
(* was lost.  Incremental research, without watchlist jobs and model calls. *)
(*                                                                         *)
(* Each action is one database transaction; the HTTP calls, and what other  *)
(* processes do meanwhile, come between them.  A transaction of the worker  *)
(* that tells a job's requests holds the lock of the job's row, but reads   *)
(* the requests without a lock before it writes them: a cancellation that   *)
(* comes in between is overlooked.  A limit of the budget may               *)
(* refuse a call at any time (module WebResearchBudget says when).  What a  *)
(* search or a page brings is a free choice of the environment.             *)
(***************************************************************************)
EXTENDS Naturals, FiniteSets

CONSTANTS
    Workers,        \* worker processes (the deployment runs one)
    Requests,       \* personal requests for the company, one per submission
    JobLimit,       \* bound: jobs of the company
    GroupCount,     \* search groups of a job, searched in this order
    PageCount,      \* bound: candidate pages of a job
    CrashLimit,     \* bound: crashes of workers
    VersionLimit,   \* bound: new versions of the research policy
    OthersHaveJobs, \* whether the worker serves other companies too
    NoCall          \* a worker that is at no call

Jobs == 1 .. JobLimit       \* in the order of created_at; 0 is no job
Groups == 1 .. GroupCount
Pages == 1 .. PageCount

(* The calls of a job, by the token that makes their idempotency key.       *)
Calls == (Groups \X {"primary", "fallback"}) \cup (Pages \X {"page"})

ASSUME JobAssumption ==
    /\ JobLimit \in Nat \ {0} /\ GroupCount \in Nat \ {0}
    /\ PageCount \in Nat /\ CrashLimit \in Nat /\ VersionLimit \in Nat
    /\ OthersHaveJobs \in BOOLEAN
    /\ NoCall \notin Calls

Active == {"queued", "running", "partial", "budget_deferred"}
Finished == {"completed", "failed", "cancelled"}
ActiveRequest == {"research_queued", "researching", "partial", "budget_deferred"}
Cancellable == ActiveRequest \cup {"cancel_requested"}
InDoubt == {"in_flight", "uncertain"}
Answers == {"done", "failed"}     \* a settled call with its result, or its error

VARIABLES
    jobs,       \* [Jobs -> JobRow]: the company's rows of company_research_jobs
    requests,   \* [Requests -> RequestRow]: personal_company_requests
    overlooked, \* the status in which a transaction under way has read a request
                \* that was cancelled since, or "no"
    calls,      \* [Jobs -> [Calls -> CallStates]]: usage_ledger
    workers,    \* [Workers -> [pc, job, call]]
    public,     \* whether the company is verified and shared
    version,    \* the version of the policy the worker runs with
    ahead,      \* whether an older job of another company is to be leased first
    asked,      \* history, jobs one of whose calls reached the provider
    crashes     \* history, number of crashes

vars == <<jobs, requests, overlooked, calls, workers, public, version, ahead, asked, crashes>>
environment == <<public, version, ahead, asked, crashes>>

CallStates == {"none", "reserved", "released", "in_flight", "uncertain", "lost"} \cup Answers
JobRow == [status : {"absent"} \cup Active \cup Finished,
           stage : {"search", "fallback", "fetch", "finalize"},
           group : Groups,          \* of the stages search and fallback
           groups : [Groups -> {"pending", "deferred", "skipped", "primary", "closed"}],
           page : 0 .. PageCount,   \* candidate_index
           lease : {"none", "held", "lapsed"},
           stop : BOOLEAN,          \* cancel_requested_at is set
           late : BOOLEAN,          \* max_elapsed_seconds have passed
           counted : BOOLEAN,       \* external_calls > 0
           version : 0 .. VersionLimit]     \* policy_version
RequestRow == [status : {"absent", "completed", "failed", "cancelled"} \cup Cancellable,
               job : {0} \cup Jobs,
               askedStop : BOOLEAN,     \* its own cancel_requested_at
               credit : {"counted", "voided"}]

PCs == {"idle", "prepared", "leased", "fetch", "call", "reserved", "refused",
        "sent", "answered", "made", "checked", "saved", "finalizing"}

NewJob == [status |-> "queued", stage |-> "search", group |-> 1,
           groups |-> [g \in Groups |-> "pending"], page |-> 0, lease |-> "none",
           stop |-> FALSE, late |-> FALSE, counted |-> FALSE, version |-> version]
NothingOverlooked == [r \in Requests |-> "no"]

Init ==
    /\ version = 0
    /\ jobs = [j \in Jobs |-> [NewJob EXCEPT !.status = "absent"]]
    /\ requests = [r \in Requests |->
          [status |-> "absent", job |-> 0, askedStop |-> FALSE, credit |-> "counted"]]
    /\ calls = [j \in Jobs |-> [c \in Calls |-> "none"]]
    /\ workers = [w \in Workers |-> [pc |-> "idle", job |-> 0, call |-> NoCall]]
    /\ overlooked = NothingOverlooked
    /\ public = TRUE
    /\ ahead = FALSE
    /\ asked = {}
    /\ crashes = 0

-----------------------------------------------------------------------------
(* Helpers of several handlers.                                             *)
Known == {j \in Jobs : jobs[j].status # "absent"}
ActiveJobs == {j \in Jobs : jobs[j].status \in Active}
LinkedActive(j) == {r \in Requests : requests[r].job = j /\ requests[r].status \in ActiveRequest}

ShouldStop(j) == jobs[j].stop \/ LinkedActive(j) = {}

Goto(w, pc) == workers' = [workers EXCEPT ![w].pc = pc]
Call(w, c) == workers' = [workers EXCEPT ![w] = [@ EXCEPT !.pc = "call", !.call = c]]
Rest(w) == workers' = [workers EXCEPT ![w] = [pc |-> "idle", job |-> 0, call |-> NoCall]]

(* A job leaves the hands of its worker.                                    *)
GivenBack(job, status) == [job EXCEPT !.status = status, !.lease = "none"]

(* The status of a request as the transaction under way has read it.        *)
Seen(r) == IF overlooked[r] = "no" THEN requests[r].status ELSE overlooked[r]

(* The requests of job j that were read in one of the given states get a    *)
(* new one.  A row whose status is the new one already is not written.      *)
Tell(j, states, status) ==
    requests' = [r \in Requests |->
        IF requests[r].job = j /\ Seen(r) \in states \ {status}
        THEN [requests[r] EXCEPT !.status = status] ELSE requests[r]]

(* budget.recover on the calls of a job.                                    *)
Recovered(cs, cancelled) ==
    [c \in Calls |->
        IF cs[c] = "reserved" /\ cancelled THEN "released"
        ELSE IF cs[c] \in InDoubt THEN "uncertain" ELSE cs[c]]

(* Mutant: a call cut off by a crash counts only once it is marked.         *)
MarkedDoubt(j) == \E c \in Calls : calls[j][c] = "uncertain"

HasDoubt(j) == \E c \in Calls : calls[j][c] \in InDoubt

(* _cancel_job                                                              *)
CancelJob(j) ==
    /\ calls' = [calls EXCEPT ![j] = Recovered(@, TRUE)]
    /\ jobs' = [jobs EXCEPT ![j] = GivenBack(@, "cancelled")]
    /\ Tell(j, Cancellable, "cancelled")

(* The groups still to be searched are given up.                            *)
Dropping(job, outcome) ==
    [job EXCEPT !.groups = [g \in Groups |->
        IF job.groups[g] = "pending" THEN outcome ELSE job.groups[g]]]

(* _defer_budget                                                            *)
DeferJob(j) ==
    /\ jobs' = [jobs EXCEPT ![j] = GivenBack(Dropping(@, "deferred"), "budget_deferred")]
    /\ Tell(j, ActiveRequest, "budget_deferred")

(* Mutant: the end of a job is told to the requests shown as partial only.  *)
FinalizeTellingPartial(j, status) ==
    /\ jobs' = [jobs EXCEPT ![j] = GivenBack(@, status)]
    /\ Tell(j, {"partial"}, status)

(* _finalize: what a job found, complete or not, is told to its requests.   *)
FinalizeJob(j, status) ==
    /\ jobs' = [jobs EXCEPT ![j] = GivenBack(@, status)]
    /\ Tell(j, ActiveRequest, status)

(* Mutant: what a step has saved is told to every linked request.           *)
SaveTellingAll(j, job) ==
    /\ jobs' = [jobs EXCEPT ![j] = GivenBack(job, "partial")]
    /\ Tell(j, ActiveRequest \cup Finished, "partial")

(* The end of a stage: the next stage is saved and the lease is given back. *)
SaveJob(j, job) ==
    /\ jobs' = [jobs EXCEPT ![j] = GivenBack(job, "partial")]
    /\ Tell(j, ActiveRequest, "partial")

-----------------------------------------------------------------------------
(* Users.  A request's owner asks once, and may ask to cancel until it ends.*)
Submit(r) ==
    /\ requests[r].status = "absent" /\ public
    /\ requests' = [requests EXCEPT ![r].status = "research_queued"]
    /\ UNCHANGED <<jobs, overlooked, calls, workers, environment>>

Stopped(job) == [job EXCEPT !.stop = TRUE]

(* cancel_personal_company_request.  A job whose step is running is told to *)
(* stop, one between two steps is cancelled at once: unless others wait.    *)
(* A transaction that holds the job's row shuts out a cancellation that     *)
(* writes the job too.  It may have read the request of one that does not,  *)
(* and prepare_pending_research_requests any request that is queued.        *)
Overlookable(r, alone) ==
    IF requests[r].status = "research_queued" \/ (requests[r].job # 0 /\ ~alone)
    THEN {requests[r].status} \cap ActiveRequest ELSE {}

Cancel(r) ==
    LET j == requests[r].job
        alone == j # 0 /\ LinkedActive(j) \ {r} = {}
        running == j # 0 /\ jobs[j].status = "running"
        status == IF running /\ alone THEN "cancel_requested" ELSE "cancelled"
        free == status = "cancelled" /\ (j = 0 \/ ~jobs[j].counted)
    IN /\ requests[r].status \in Cancellable
       /\ requests' = [requests EXCEPT ![r] =
             [@ EXCEPT !.status = status, !.askedStop = TRUE,
                       !.credit = IF free THEN "voided" ELSE requests[r].credit]]
       /\ jobs' = IF ~alone THEN jobs
                  ELSE IF running THEN [jobs EXCEPT ![j] = Stopped(@)]
                  ELSE [jobs EXCEPT ![j] = GivenBack(Stopped(@), "cancelled")]
       /\ \E seen \in {"no"} \cup IF status = "cancelled" THEN Overlookable(r, alone) ELSE {} :
            overlooked' = [overlooked EXCEPT ![r] = seen]
       /\ UNCHANGED <<calls, workers, environment>>

(* budget.reconcile of a call in doubt: its bill is known, its result lost. *)
Reconcile(j, c) ==
    /\ calls[j][c] = "uncertain"
    /\ calls' = [calls EXCEPT ![j] = [@ EXCEPT ![c] = "lost"]]
    /\ IF jobs[j].status = "budget_deferred"
       THEN /\ \E counted \in {jobs[j].counted, TRUE} :
                  jobs' = [jobs EXCEPT ![j] =
                     GivenBack([@ EXCEPT !.stage = "finalize", !.counted = counted], "partial")]
            /\ Tell(j, {"budget_deferred"}, "partial")
       ELSE UNCHANGED <<jobs, requests>>
    /\ overlooked' = NothingOverlooked
    /\ UNCHANGED <<workers, environment>>

(* The company loses its verified, shared status.                           *)
Withdraw ==
    /\ public /\ public' = FALSE
    /\ UNCHANGED <<jobs, requests, overlooked, calls, workers, version, ahead, asked, crashes>>

(* A deployment with a new policy, before the worker's next step.           *)
NewPolicy ==
    /\ version < VersionLimit /\ \A w \in Workers : workers[w].pc = "idle"
    /\ version' = version + 1
    /\ UNCHANGED <<jobs, requests, overlooked, calls, workers, public, ahead, asked, crashes>>

(* Other companies get jobs, and theirs end.                                *)
OthersChange ==
    /\ OthersHaveJobs /\ ahead' = ~ahead
    /\ UNCHANGED <<jobs, requests, overlooked, calls, workers, public, version, asked, crashes>>

(* max_elapsed_seconds have passed since the first lease.                   *)
TimePasses(j) ==
    /\ jobs[j].status \in Active \ {"queued"} /\ ~jobs[j].late
    /\ jobs' = [jobs EXCEPT ![j] = [@ EXCEPT !.late = TRUE]]
    /\ UNCHANGED <<requests, overlooked, calls, workers, environment>>

LeaseLapses(j) ==
    /\ jobs[j].status = "running" /\ jobs[j].lease = "held"
    /\ jobs' = [jobs EXCEPT ![j] = [@ EXCEPT !.lease = "lapsed"]]
    /\ UNCHANGED <<requests, overlooked, calls, workers, environment>>

-----------------------------------------------------------------------------
(* prepare_pending_research_requests.  Waiting requests join the active job,*)
(* or take the outcome of the last one if it is fresh enough, or get a new  *)
(* job.                                                                     *)
Waiting == {r \in Requests : Seen(r) = "research_queued"}

(* The row of a request that is queued already gets the job only, so that a *)
(* cancellation overlooked stays; a refresh that still is pending (also     *)
(* "research_queued" here, without a job) is written, and the cancellation  *)
(* is lost.                                                                 *)
JoinRequests(j, status) ==
    LET queued == {r \in Waiting : overlooked[r] # "no" /\ status = "research_queued"} IN
    \E kept \in SUBSET queued :
        /\ \A r \in queued \ kept : requests[r].job = 0
        /\ requests' = [r \in Requests |->
              IF r \notin Waiting THEN requests[r]
              ELSE [requests[r] EXCEPT !.job = j, !.status = IF r \in kept THEN @ ELSE status]]

LastFinished(j) ==
    jobs[j].status \in Finished /\ \A i \in Known : jobs[i].status \in Finished => i <= j

JoinActiveJob == \E j \in ActiveJobs : JoinRequests(j, "research_queued") /\ UNCHANGED jobs
ReuseLastJob ==
    /\ ActiveJobs = {}
    /\ \E last \in Known :
          /\ LastFinished(last)
          /\ JoinRequests(last, IF jobs[last].status = "completed" THEN "completed" ELSE "failed")
    /\ UNCHANGED jobs
CreateJob ==
    LET j == Cardinality(Known) + 1 IN
    /\ ActiveJobs = {} /\ j \in Jobs
    /\ jobs' = [jobs EXCEPT ![j] = NewJob]
    /\ JoinRequests(j, "research_queued")

Prepare(w) ==
    /\ workers[w].pc = "idle"
    /\ Goto(w, "prepared")
    /\ \/ Waiting = {} /\ UNCHANGED <<jobs, requests>>
       \/ /\ ~public
          /\ UNCHANGED jobs
          /\ requests' = [r \in Requests |->
                IF r \in Waiting THEN [requests[r] EXCEPT !.status = "failed"] ELSE requests[r]]
       \/ public /\ Waiting # {} /\ (JoinActiveJob \/ ReuseLastJob \/ CreateJob)
    /\ UNCHANGED <<calls, environment>>

(* _lease_job: the oldest job of the policy's version, of any company.      *)
(* Mutant: a running job is never taken over.                               *)
LeasableUnlessRunning(j) ==
    /\ jobs[j].version = version
    /\ jobs[j].status \in {"queued", "partial", "budget_deferred"}
Leasable(j) ==
    /\ jobs[j].version = version
    /\ \/ jobs[j].status \in {"queued", "partial", "budget_deferred"}
       \/ jobs[j].status = "running" /\ jobs[j].lease # "held"
FirstInLine(j) == ~ahead /\ Leasable(j) /\ \A i \in 1 .. j - 1 : ~Leasable(i)

(* Nothing to do for this company: the step may be another one's.           *)
NothingToDo(w) ==
    /\ workers[w].pc = "prepared" /\ \A j \in Jobs : ~FirstInLine(j)
    /\ Rest(w)
    /\ UNCHANGED <<jobs, requests, calls, environment>>

CancelAtLease(w, j) ==
    /\ workers[w].pc = "prepared" /\ FirstInLine(j) /\ ShouldStop(j)
    /\ CancelJob(j) /\ Rest(w)
    /\ UNCHANGED environment

Lease(w, j) ==
    /\ workers[w].pc = "prepared" /\ FirstInLine(j) /\ ~ShouldStop(j)
    /\ jobs' = [jobs EXCEPT ![j] = [@ EXCEPT !.status = "running", !.lease = "held"]]
    /\ Tell(j, ActiveRequest, "researching")
    /\ workers' = [workers EXCEPT ![w] = [@ EXCEPT !.pc = "leased", !.job = j]]
    /\ UNCHANGED <<calls, environment>>

-----------------------------------------------------------------------------
(* The start of a step of the leased job, in the order of                   *)
(* _run_web_research_worker_once.  The network check may fail, or be        *)
(* skipped because a recent one succeeded.                                  *)
At(w, pc) == workers[w].pc = pc
JobOf(w) == workers[w].job

PreflightFails(w) ==
    LET j == JobOf(w) IN
    /\ At(w, "leased")
    /\ jobs' = [jobs EXCEPT ![j] = GivenBack(@, "failed")]
    /\ requests' = [r \in Requests |->
          IF requests[r].job = j /\ Seen(r) \in ActiveRequest
          THEN [requests[r] EXCEPT !.status = "failed",
                                   !.credit = IF jobs[j].counted THEN @ ELSE "voided"]
          ELSE requests[r]]
    /\ Rest(w)
    /\ UNCHANGED <<calls, environment>>

(* The lease and the requests are left as they are.                         *)
CompanyWithdrawn(w) ==
    /\ At(w, "leased") /\ ~public
    /\ jobs' = [jobs EXCEPT ![JobOf(w)] = [@ EXCEPT !.status = "failed"]]
    /\ Rest(w)
    /\ UNCHANGED <<requests, calls, environment>>

DeferInDoubt(w) ==
    LET j == JobOf(w) IN
    /\ At(w, "leased") /\ public /\ HasDoubt(j)
    /\ calls' = [calls EXCEPT ![j] = Recovered(@, FALSE)]
    /\ DeferJob(j) /\ Rest(w)
    /\ UNCHANGED environment

(* Mutant: the step starts without recovering the calls of the last one.    *)
ReadyUnrecovered(w) == At(w, "leased") /\ public
Ready(w) == At(w, "leased") /\ public /\ ~HasDoubt(JobOf(w))

StopLate(w) ==
    LET j == JobOf(w) IN
    /\ Ready(w) /\ jobs[j].late /\ jobs[j].stage # "finalize"
    /\ jobs' = [jobs EXCEPT ![j] = [@ EXCEPT !.stage = "finalize"]]
    /\ Goto(w, "finalizing")
    /\ UNCHANGED <<requests, calls, environment>>

(* _finalize, by the stage of that name or by one that has nothing to do.   *)
Finalize(w, status) ==
    LET j == JobOf(w)
        done == \/ jobs[j].stage = "finalize"
                \/ jobs[j].stage = "fallback" /\ jobs[j].groups[jobs[j].group] # "primary"
    IN /\ \/ At(w, "finalizing")
          \/ Ready(w) /\ done /\ (jobs[j].late => jobs[j].stage = "finalize")
       /\ FinalizeJob(j, status) /\ Rest(w)
       /\ UNCHANGED <<calls, environment>>

Begin(w) ==
    LET job == jobs[JobOf(w)] IN
    /\ Ready(w) /\ ~job.late
    /\ \/ job.stage = "search" /\ Call(w, <<job.group, "primary">>)
       \/ job.stage = "fallback" /\ job.groups[job.group] = "primary"
          /\ Call(w, <<job.group, "fallback">>)
       \/ job.stage = "fetch" /\ Goto(w, "fetch")
    /\ UNCHANGED <<jobs, requests, calls, environment>>

(* A refresh that has made all its searches gives up the groups left.       *)
SearchesExhausted(w) ==
    LET j == JobOf(w) IN
    /\ Ready(w) /\ ~jobs[j].late /\ jobs[j].stage = "search"
    /\ jobs' = [jobs EXCEPT ![j] =
          GivenBack([Dropping(@, "skipped") EXCEPT !.stage = "fetch"], "partial")]
    /\ Rest(w)
    /\ UNCHANGED <<requests, calls, environment>>

-----------------------------------------------------------------------------
(* One call: _provider_response for a search, _reserve_job_call and the     *)
(* fetcher for a page.                                                      *)
CallOf(w) == workers[w].call
Search(c) == c[2] # "page"
StateOf(w) == calls[JobOf(w)][CallOf(w)]
Cached(c) == \E j \in Known : calls[j][c] = "done"
SetCall(w, state) == calls' = [calls EXCEPT ![JobOf(w)] = [@ EXCEPT ![CallOf(w)] = state]]

(* The company's cache has the answer, or a failure is known and replayed.  *)
AnswerKnown(w) ==
    /\ At(w, "call") /\ Search(CallOf(w))
    /\ Cached(CallOf(w)) \/ StateOf(w) = "failed"
    /\ Goto(w, "made")
    /\ UNCHANGED <<jobs, requests, calls, environment>>

Reserve(w) ==
    /\ At(w, "call") /\ ~jobs[JobOf(w)].late /\ StateOf(w) \in {"none", "reserved"}
    /\ SetCall(w, "reserved")
    /\ Goto(w, "reserved")
    /\ UNCHANGED <<jobs, requests, environment>>

Dispatch(w) ==
    /\ At(w, "reserved") /\ StateOf(w) = "reserved" /\ ~ShouldStop(JobOf(w))
    /\ SetCall(w, "in_flight")
    /\ Goto(w, "sent")
    /\ UNCHANGED <<jobs, requests, environment>>

(* The reservation is given back before the job is cancelled.               *)
DispatchCancelled(w) ==
    /\ At(w, "reserved") /\ StateOf(w) = "reserved" /\ ShouldStop(JobOf(w))
    /\ SetCall(w, "released")
    /\ Goto(w, "refused")
    /\ UNCHANGED <<jobs, requests, environment>>

(* WebResearchBudgetDeferred: a limit, the time, a call that was made       *)
(* before, or a request to stop refuses the call.                           *)
CallRefused(w) ==
    LET j == JobOf(w) IN
    /\ \/ At(w, "call") /\ (Search(CallOf(w)) => StateOf(w) # "failed")
       \/ At(w, "reserved") /\ ~(StateOf(w) = "reserved" /\ ShouldStop(j))
       \/ At(w, "refused")
    /\ IF ShouldStop(j) THEN CancelJob(j) ELSE DeferJob(j) /\ UNCHANGED calls
    /\ Rest(w)
    /\ UNCHANGED environment

CallProvider(w) ==
    /\ At(w, "sent")
    /\ asked' = asked \cup {JobOf(w)}
    /\ Goto(w, "answered")
    /\ UNCHANGED <<jobs, requests, calls, public, version, ahead, crashes>>

(* The answer, its settlement and the progress are saved at once.           *)
Settle(w, answer) ==
    IF StateOf(w) \in InDoubt THEN SetCall(w, answer) ELSE UNCHANGED calls
Counted(j, answer) == {TRUE} \cup IF answer = "failed" THEN {jobs[j].counted} ELSE {}

AnswerSearch(w, answer) ==
    LET j == JobOf(w) IN
    /\ At(w, "answered") /\ Search(CallOf(w))
    /\ Settle(w, answer)
    /\ \E counted \in Counted(j, answer) :
          jobs' = [jobs EXCEPT ![j] = [@ EXCEPT !.counted = counted]]
    /\ Goto(w, "made")
    /\ UNCHANGED <<requests, environment>>

AnswerPage(w, answer) ==
    LET j == JobOf(w) IN
    /\ At(w, "answered") /\ ~Search(CallOf(w))
    /\ Settle(w, answer)
    /\ \E counted \in Counted(j, answer) :
          SaveJob(j, [jobs[j] EXCEPT !.page = CallOf(w)[1], !.stage = "fetch",
                                     !.counted = counted])
    /\ Goto(w, "saved")
    /\ UNCHANGED environment

-----------------------------------------------------------------------------
(* _process_search_group and _process_readability_fallback after a call.    *)
StopAfterCall(w) ==
    /\ At(w, "made") \/ At(w, "saved")
    /\ ShouldStop(JobOf(w))
    /\ CancelJob(JobOf(w)) /\ Rest(w)
    /\ UNCHANGED environment

FallBack(w) ==
    LET c == CallOf(w) IN
    /\ At(w, "made") /\ c[2] = "primary" /\ ~ShouldStop(JobOf(w))
    /\ Call(w, <<c[1], "fallback">>)
    /\ UNCHANGED <<jobs, requests, calls, environment>>

Enough(w) ==
    /\ At(w, "made") /\ ~ShouldStop(JobOf(w))
    /\ Goto(w, "checked")
    /\ UNCHANGED <<jobs, requests, calls, environment>>

Pending(groups) == {g \in Groups : groups[g] = "pending"}

(* The group stays "primary" if its fallback provider was not needed.       *)
SaveGroup(w, outcome) ==
    LET j == JobOf(w)
        c == CallOf(w)
        groups == [jobs[j].groups EXCEPT ![c[1]] = outcome]
        next == Pending(groups)
        job == [jobs[j] EXCEPT !.groups = groups]
    IN /\ At(w, "checked")
       /\ outcome = "primary" => c[2] = "primary" /\ Cached(c)
       /\ \/ next = {} /\ SaveJob(j, [job EXCEPT !.stage = "fetch"])
          \/ \E g \in next : /\ \A h \in next : g <= h
                             /\ SaveJob(j, [job EXCEPT !.group = g])
       /\ Rest(w)
       /\ UNCHANGED <<calls, environment>>

-----------------------------------------------------------------------------
(* _fetch_candidate                                                         *)
(* Mutant: the index of the next page is not compared with the last one.    *)
FetchPageUnbounded(w) ==
    LET page == jobs[JobOf(w)].page + 1 IN
    /\ At(w, "fetch")
    /\ Call(w, <<page, "page">>)
    /\ UNCHANGED <<jobs, requests, calls, environment>>

FetchPage(w) ==
    LET page == jobs[JobOf(w)].page + 1 IN
    /\ At(w, "fetch") /\ page \in Pages
    /\ Call(w, <<page, "page">>)
    /\ UNCHANGED <<jobs, requests, calls, environment>>

PageWithoutCall(w) ==
    LET j == JobOf(w) IN
    /\ At(w, "fetch") /\ jobs[j].page + 1 \in Pages
    /\ SaveJob(j, [jobs[j] EXCEPT !.page = @ + 1])
    /\ Goto(w, "saved")
    /\ UNCHANGED <<calls, environment>>

(* No page is left, or a limit is reached; the requests are not told.       *)
PagesDone(w) ==
    LET j == JobOf(w)
        save(job) == jobs' = [jobs EXCEPT ![j] = GivenBack(job, "partial")]
    IN /\ At(w, "fetch")
       /\ \/ save([jobs[j] EXCEPT !.stage = "finalize"])
          \/ \E g \in Groups : /\ jobs[j].groups[g] = "primary"
                               /\ save([jobs[j] EXCEPT !.stage = "fallback", !.group = g])
       /\ Rest(w)
       /\ UNCHANGED <<requests, calls, environment>>

StepEnds(w) ==
    /\ At(w, "saved") /\ ~ShouldStop(JobOf(w))
    /\ Rest(w)
    /\ UNCHANGED <<jobs, requests, calls, environment>>

Crash(w) ==
    /\ workers[w].pc # "idle" /\ crashes < CrashLimit
    /\ crashes' = crashes + 1
    /\ overlooked' = NothingOverlooked
    /\ Rest(w)
    /\ UNCHANGED <<jobs, requests, calls, public, version, ahead, asked>>

(* A transaction of the worker; the next one reads the requests anew.       *)
WorkerAction(w) ==
    \/ Prepare(w) \/ NothingToDo(w)
    \/ \E j \in Jobs : CancelAtLease(w, j) \/ Lease(w, j)
    \/ PreflightFails(w) \/ CompanyWithdrawn(w) \/ DeferInDoubt(w)
    \/ StopLate(w) \/ Begin(w) \/ SearchesExhausted(w)
    \/ \E status \in {"completed", "failed"} : Finalize(w, status)
    \/ AnswerKnown(w) \/ Reserve(w) \/ Dispatch(w) \/ DispatchCancelled(w)
    \/ CallRefused(w) \/ CallProvider(w)
    \/ \E answer \in Answers : AnswerSearch(w, answer) \/ AnswerPage(w, answer)
    \/ StopAfterCall(w) \/ FallBack(w) \/ Enough(w)
    \/ \E outcome \in {"primary", "closed"} : SaveGroup(w, outcome)
    \/ FetchPage(w) \/ PageWithoutCall(w) \/ PagesDone(w) \/ StepEnds(w)

WorkerStep(w) == WorkerAction(w) /\ overlooked' = NothingOverlooked

Next ==
    \/ \E w \in Workers : WorkerStep(w) \/ Crash(w)
    \/ \E r \in Requests : Submit(r) \/ Cancel(r)
    \/ \E j \in Jobs, c \in Calls : Reconcile(j, c)
    \/ \E j \in Jobs : TimePasses(j) \/ LeaseLapses(j)
    \/ Withdraw \/ NewPolicy \/ OthersChange

Spec == Init /\ [][Next]_vars

(* The worker is run again and again (by its loop, and by an operator where *)
(* it exits), and time passes.  Users and administrators may never act, and *)
(* the jobs of other companies may come first for ever.                     *)
FairSpec == /\ Spec
            /\ \A w \in Workers : WF_vars(WorkerStep(w))
            /\ \A j \in Jobs : WF_vars(LeaseLapses(j))

-----------------------------------------------------------------------------
(* Every variable has its type, and a worker at work has a job.             *)
TypeOK ==
    /\ jobs \in [Jobs -> JobRow]
    /\ requests \in [Requests -> RequestRow]
    /\ overlooked \in [Requests -> {"no"} \cup ActiveRequest]
    /\ calls \in [Jobs -> [Calls -> CallStates]]
    /\ workers \in [Workers -> [pc : PCs, job : {0} \cup Jobs, call : {NoCall} \cup Calls]]
    /\ \A w \in Workers : workers[w].job = 0 <=> workers[w].pc \in {"idle", "prepared"}
    /\ public \in BOOLEAN /\ ahead \in BOOLEAN /\ version \in 0 .. VersionLimit
    /\ asked \subseteq Jobs
    /\ crashes \in 0 .. CrashLimit

(* Whatever crashes and recoveries come between, at most one call of a job  *)
(* has an outcome nobody knows: the next call waits until an administrator  *)
(* has reconciled the last one.                                             *)
OneCallInDoubt ==
    \A j \in Jobs : Cardinality({c \in Calls : calls[j][c] \in InDoubt}) <= 1

(* While a call of a job stays in doubt the job does not go on to another   *)
(* stage and is never reported as complete.                                 *)
DoubtStopsProgress ==
    [][\A j \in Jobs :
        (\E c \in Calls : calls[j][c] = "uncertain" /\ calls'[j][c] = "uncertain") =>
            /\ jobs'[j].stage = jobs[j].stage /\ jobs'[j].page = jobs[j].page
            /\ jobs'[j].status = "completed" => jobs[j].status = "completed"]_vars

(* A request that shows work under way belongs to a job that still does     *)
(* work, so that it is not left waiting for ever.  (A company that loses    *)
(* its shared status is the exception: see hazards.)                        *)
WorkingRequestHasActiveJob ==
    public => \A r \in Requests :
        requests[r].status \in {"researching", "partial", "budget_deferred"} =>
            requests[r].job \in ActiveJobs

(* What a user was told in the end stays, through recoveries, deferrals,    *)
(* reconciliations and later jobs: a finished request never changes.  The   *)
(* exception is a cancellation that a transaction under way has overlooked; *)
(* once that transaction has ended, a cancellation is final too.            *)
RequestOutcomeFinal ==
    [][\A r \in Requests : requests[r].status \in Finished /\ overlooked[r] = "no" =>
          requests'[r] = requests[r]]_vars

(* Unless jobs of other companies come first for ever, a job told to stop   *)
(* does end, whatever its worker is doing or crashes at: if the policy      *)
(* keeps the version it was created with.                                   *)
Current(j) == jobs[j].version = version
StoppedJobEnds ==
    <>[]~ahead => \A j \in Jobs :
        (jobs[j].stop /\ Current(j)) ~> (jobs[j].status \in Finished \/ ~Current(j))

-----------------------------------------------------------------------------
(* What the documents say and the code does not do.                         *)

(* "Cancellation ends only the current user's request; a shared job goes on *)
(* while it has other active requests" (docs/08-api-design.md).             *)
CancelledByOwner ==
    \A r \in Requests : requests[r].status = "cancelled" => requests[r].askedStop

(* "Cancelled or ended requests are not started again"                      *)
(* (docs/12-operations-runbook.md).                                         *)
CancelledNotRestarted ==
    [][\A r \in Requests : requests[r].status = "cancelled" =>
          requests'[r].status = "cancelled"]_vars

(* "Cancellation before the call releases the records not dispatched"       *)
(* (docs/06-cost-control.md).                                               *)
CancelReleasesReservations ==
    \A j \in Jobs : jobs[j].status = "cancelled" =>
        \A c \in Calls : calls[j][c] # "reserved"

(* "The remaining steps go on when the budget allows"                       *)
(* (personal_features.py): a job that has resumed and searched a group does *)
(* not go on to read pages while another group is deferred for the budget.  *)
DeferredGroupsSearched ==
    [][\A j \in Jobs :
        /\ jobs[j].stage = "search" /\ jobs'[j].stage = "fetch"
        /\ jobs'[j].groups # jobs[j].groups
        /\ \A g \in Groups : jobs'[j].groups[g] # "skipped"
        => \A g \in Groups : jobs'[j].groups[g] # "deferred"]_vars

(* "If no external call was made before the cancellation the month's credit *)
(* may be returned, once one was made it is not" (ADR-0015).                *)
CreditReturnedOnlyWithoutCalls ==
    [][\A r \in Requests :
        requests[r].credit = "counted" /\ requests'[r].credit = "voided" =>
            requests[r].job \notin asked]_vars
=============================================================================
