------------------------ MODULE WebResearchJobOutcomes ------------------------
(* What the owner of a request sees of the research jobs of WebResearchJob: *)
(* work under way is work of an active job, and an outcome stays.  And what *)
(* a single worker leaves in doubt: never two calls of a job, and a job it  *)
(* left one in stops.                                                       *)
EXTENDS WebResearchJobProofs, FiniteSetTheorems

Working == {"researching", "partial", "budget_deferred"}

(* WorkingRequestHasActiveJob, of one request.                              *)
Attended(r) == requests[r].status \in Working => requests[r].job \in ActiveJobs

-----------------------------------------------------------------------------
(* Each lemma is about the kinds of changes that several actions make.      *)

(* The end of a request is not rewritten by a handler that tells the        *)
(* requests of its job only while they are active or being cancelled.       *)
LEMMA TellKeepsFinished ==
    ASSUME Typed, NEW j, NEW states, NEW status, Tell(j, states, status),
           states \cap Finished = {}
    PROVE  \A r \in Requests :
              requests[r].status \in Finished /\ overlooked[r] = "no" => requests'[r] = requests[r]
  BY DEF Tell, Seen, Typed

(* The requests of a job that goes on are told so.                          *)
LEMMA JobGoesOn ==
    ASSUME Typed, NEW j \in Jobs, NEW states, NEW status, Tell(j, states, status),
           NEW row, row.status \in Active, jobs' = [jobs EXCEPT ![j] = row],
           \A r \in Requests : Attended(r)
    PROVE  \A r \in Requests : Attended(r)'
<1> SUFFICES ASSUME NEW r \in Requests, requests'[r].status \in Working
             PROVE  requests'[r].job \in ActiveJobs'
  BY DEF Attended
<1>1. jobs'[j].status \in Active /\ \A i \in Jobs \ {j} : jobs'[i] = jobs[i]
  BY DEF Typed
<1>2. requests'[r].job = requests[r].job
  BY DEF Tell, Typed, RequestRow
<1>3. CASE requests[r].job = j
  BY <1>1, <1>2, <1>3 DEF ActiveJobs
<1>4. CASE requests[r].job # j
  <2>1. requests'[r] = requests[r]
    BY <1>4 DEF Tell
  <2>2. QED
    BY <1>1, <1>4, <2>1 DEF Attended, ActiveJobs
<1>5. QED
  BY <1>3, <1>4

(* A job that ends leaves none of its own requests at work, and does not    *)
(* touch the requests and jobs of others.                                   *)
LEMMA JobEnds ==
    ASSUME Typed, NEW j \in Jobs, NEW row, jobs' = [jobs EXCEPT ![j] = row],
           \A r \in Requests : requests[r].job # j => requests'[r] = requests[r],
           \A r \in Requests : requests[r].job = j => requests'[r].status \notin Working,
           \A r \in Requests : Attended(r)
    PROVE  \A r \in Requests : Attended(r)'
<1>1. \A i \in Jobs \ {j} : jobs'[i] = jobs[i]
  BY DEF Typed
<1>2. QED
  BY <1>1 DEF Attended, ActiveJobs

LEMMA EndTold ==
    ASSUME Typed, Overlooks, NEW j \in Jobs, NEW states, NEW status, Tell(j, states, status),
           NEW row, jobs' = [jobs EXCEPT ![j] = row],
           ActiveRequest \subseteq states, status \notin Working,
           \A r \in Requests : Attended(r)
    PROVE  \A r \in Requests : Attended(r)'
<1>1. \A r \in Requests : requests[r].job # j => requests'[r] = requests[r]
  BY DEF Tell
<1>2. ASSUME NEW r \in Requests, requests[r].job = j
      PROVE  requests'[r].status \notin Working
  <2>1. CASE Seen(r) \in states \ {status}
    BY <1>2, <2>1 DEF Tell, Typed, RequestRow
  <2>2. CASE Seen(r) \notin states \ {status}
    <3>1. requests'[r] = requests[r]
      BY <2>2 DEF Tell
    <3>2. requests[r].status \notin Working
      BY <2>2 DEF Seen, Overlooks, Working, ActiveRequest
    <3>3. QED
      BY <3>1, <3>2
  <2>3. QED
    BY <2>1, <2>2
<1>3. QED
  BY <1>1, <1>2, JobEnds

(* Nothing is told, and no job ends.                                        *)
LEMMA JobsStay ==
    ASSUME UNCHANGED requests, \A j \in ActiveJobs : j \in ActiveJobs',
           \A r \in Requests : Attended(r)
    PROVE  \A r \in Requests : Attended(r)'
  BY DEF Attended

LEMMA OneJobStays ==
    ASSUME Typed, NEW j \in Jobs, NEW row, jobs' = [jobs EXCEPT ![j] = row],
           row.status \in Active \/ row.status = jobs[j].status, UNCHANGED requests,
           \A r \in Requests : Attended(r)
    PROVE  \A r \in Requests : Attended(r)'
<1>1. \A i \in ActiveJobs : i \in ActiveJobs'
  BY DEF ActiveJobs, Typed
<1>2. QED
  BY <1>1, JobsStay

LEMMA GivenBackStatus ==
    ASSUME NEW job, NEW status, GivenBack(job, status) \in JobRow
    PROVE  GivenBack(job, status).status = status
<1>1. "status" \in DOMAIN GivenBack(job, status)
  BY DEF JobRow
<1>2. DOMAIN GivenBack(job, status) = DOMAIN job
  BY DEF GivenBack
<1>3. QED
  BY <1>1, <1>2 DEF GivenBack

LEMMA RowStatus ==
    ASSUME NEW job \in JobRow, NEW status
    PROVE  /\ GivenBack(job, status).status = status
           /\ Stopped(job).status = job.status
           /\ [job EXCEPT !.status = "running", !.lease = "held"].status = "running"
           /\ [job EXCEPT !.late = TRUE].status = job.status
           /\ [job EXCEPT !.lease = "lapsed"].status = job.status
           /\ [job EXCEPT !.stage = "finalize"].status = job.status
           /\ \A counted : [job EXCEPT !.counted = counted].status = job.status
  BY DEF GivenBack, Stopped, JobRow

-----------------------------------------------------------------------------
(* A finished request stays as it is.                                       *)

KeepsFinished ==
    \A r \in Requests :
        requests[r].status \in Finished /\ overlooked[r] = "no" => requests'[r] = requests[r]

LEMMA HelpersKeepFinished ==
    ASSUME Typed, NEW j,
           \/ CancelJob(j) \/ DeferJob(j)
           \/ \E status : FinalizeJob(j, status)
           \/ \E job : SaveJob(j, job)
    PROVE  KeepsFinished
<1>1. Cancellable \cap Finished = {} /\ ActiveRequest \cap Finished = {}
  BY DEF Cancellable, ActiveRequest, Finished
<1>2. QED
  BY <1>1, TellKeepsFinished DEF CancelJob, DeferJob, FinalizeJob, SaveJob, KeepsFinished

LEMMA NextKeepsFinished == Typed /\ [Next]_vars => KeepsFinished
<1> SUFFICES ASSUME Typed, [Next]_vars
             PROVE  KeepsFinished
  OBVIOUS
<1>1. ASSUME UNCHANGED requests
      PROVE  KeepsFinished
  BY <1>1 DEF KeepsFinished
<1>2. ASSUME NEW r \in Requests, Submit(r) \/ Cancel(r)
      PROVE  KeepsFinished
  <2>1. requests[r].status \notin Finished
    BY <1>2 DEF Submit, Cancel, Cancellable, ActiveRequest, Finished
  <2>2. \A q \in Requests \ {r} : requests'[q] = requests[q]
    BY <1>2 DEF Submit, Cancel, Typed
  <2>3. QED
    BY <2>1, <2>2 DEF KeepsFinished
<1>3. ASSUME NEW j \in Jobs, NEW c \in Calls, Reconcile(j, c)
      PROVE  KeepsFinished
  <2>1. {"budget_deferred"} \cap Finished = {}
    BY DEF Finished
  <2>2. QED
    BY <1>1, <1>3, <2>1, TellKeepsFinished DEF Reconcile, KeepsFinished
<1>4. ASSUME NEW w \in Workers, Prepare(w)
      PROVE  KeepsFinished
  <2>1. \A r \in Requests :
            requests[r].status \in Finished /\ overlooked[r] = "no" => r \notin Waiting
    BY DEF Waiting, Seen, Finished
  <2>2. QED
    BY <1>1, <1>4, <2>1
       DEF Prepare, JoinActiveJob, ReuseLastJob, CreateJob, JoinRequests, KeepsFinished
<1>5. ASSUME NEW w \in Workers, NEW j \in Jobs, Lease(w, j)
      PROVE  KeepsFinished
  <2>1. ActiveRequest \cap Finished = {}
    BY DEF ActiveRequest, Finished
  <2>2. QED
    BY <1>5, <2>1, TellKeepsFinished DEF Lease, KeepsFinished
<1>6. ASSUME NEW w \in Workers, PreflightFails(w)
      PROVE  KeepsFinished
  <2>1. \A r \in Requests :
            requests[r].status \in Finished /\ overlooked[r] = "no" => Seen(r) \notin ActiveRequest
    BY DEF Seen, ActiveRequest, Finished
  <2>2. QED
    BY <1>6, <2>1 DEF PreflightFails, KeepsFinished
<1>7. ASSUME NEW w \in Workers,
             \/ \E j \in Jobs : CancelAtLease(w, j)
             \/ DeferInDoubt(w) \/ \E status \in {"completed", "failed"} : Finalize(w, status)
             \/ CallRefused(w) \/ \E answer \in Answers : AnswerPage(w, answer)
             \/ StopAfterCall(w) \/ PageWithoutCall(w)
             \/ \E outcome \in {"primary", "closed"} : SaveGroup(w, outcome)
      PROVE  KeepsFinished
  BY <1>7, HelpersKeepFinished
     DEF CancelAtLease, DeferInDoubt, Finalize, CallRefused, AnswerPage, StopAfterCall,
         PageWithoutCall, SaveGroup
<1>8. ASSUME NEW w \in Workers,
             \/ NothingToDo(w) \/ CompanyWithdrawn(w) \/ StopLate(w) \/ Begin(w)
             \/ SearchesExhausted(w) \/ AnswerKnown(w) \/ Reserve(w) \/ Dispatch(w)
             \/ DispatchCancelled(w) \/ CallProvider(w)
             \/ \E answer \in Answers : AnswerSearch(w, answer)
             \/ FallBack(w) \/ Enough(w) \/ FetchPage(w) \/ PagesDone(w) \/ StepEnds(w)
             \/ Crash(w)
      PROVE  KeepsFinished
  BY <1>1, <1>8
     DEF NothingToDo, CompanyWithdrawn, StopLate, Begin, SearchesExhausted, AnswerKnown,
         Reserve, Dispatch, DispatchCancelled, CallProvider, AnswerSearch, FallBack, Enough,
         FetchPage, PagesDone, StepEnds, Crash
<1>9. CASE \/ Withdraw \/ NewPolicy \/ OthersChange \/ UNCHANGED vars
           \/ \E j \in Jobs : TimePasses(j) \/ LeaseLapses(j)
  BY <1>1, <1>9 DEF Withdraw, NewPolicy, OthersChange, vars, TimePasses, LeaseLapses
<1>10. QED
  BY <1>2, <1>3, <1>4, <1>5, <1>6, <1>7, <1>8, <1>9 DEF Next, WorkerStep, WorkerAction

(* What a user was told in the end stays, whatever late workers, joined     *)
(* jobs and other users do; a cancellation stays too, unless a transaction  *)
(* that has read the request before it is still under way.                  *)
THEOREM OutcomesStay == Spec => RequestOutcomeFinal
<1>1. Typed /\ [Next]_vars =>
        [\A r \in Requests : requests[r].status \in Finished /\ overlooked[r] = "no" =>
            requests'[r] = requests[r]]_vars
  BY NextKeepsFinished DEF KeepsFinished
<1>2. QED
  BY <1>1, AlwaysTyped, PTL DEF Spec, RequestOutcomeFinal

-----------------------------------------------------------------------------
(* Work that is shown belongs to an active job.                             *)

AllAttended == \A r \in Requests : Attended(r)

LEMMA HelpersAttend ==
    ASSUME Typed, Typed', Overlooks, AllAttended, NEW j \in Jobs,
           \/ CancelJob(j) \/ DeferJob(j)
           \/ \E status \in {"completed", "failed"} : FinalizeJob(j, status)
           \/ \E job : SaveJob(j, job)
    PROVE  AllAttended'
<1> USE DEF AllAttended
<1>1. jobs[j] \in JobRow /\ Dropping(jobs[j], "deferred") \in JobRow
  BY DroppingType DEF Typed
<1>2. ActiveRequest \subseteq Cancellable /\ "partial" \in Active /\ "budget_deferred" \in Active
      /\ {"cancelled", "completed", "failed"} \cap Working = {}
  BY DEF Cancellable, Active, Working
<1>3. CASE CancelJob(j)
  BY <1>2, <1>3, EndTold DEF CancelJob
<1>4. CASE DeferJob(j)
  <2>1. GivenBack(Dropping(jobs[j], "deferred"), "budget_deferred").status \in Active
    BY <1>1, <1>2, RowStatus
  <2>2. QED
    BY <1>4, <2>1, JobGoesOn DEF DeferJob
<1>5. ASSUME NEW status \in {"completed", "failed"}, FinalizeJob(j, status)
      PROVE  AllAttended'
  BY <1>2, <1>5, EndTold DEF FinalizeJob
<1>6. ASSUME NEW job, SaveJob(j, job)
      PROVE  AllAttended'
  <2>1. GivenBack(job, "partial").status \in Active
    BY <1>2, <1>6, GivenBackStatus DEF SaveJob, Typed
  <2>2. QED
    BY <1>6, <2>1, JobGoesOn DEF SaveJob
<1>7. QED
  BY <1>3, <1>4, <1>5, <1>6

(* A user who cancels ends the job only when nobody else waits for it.      *)
LEMMA CancelAttends ==
    ASSUME Typed, AllAttended, NEW r \in Requests, Cancel(r)
    PROVE  AllAttended'
<1> USE DEF AllAttended
<1> DEFINE j == requests[r].job
           alone == j # 0 /\ LinkedActive(j) \ {r} = {}
<1>1. /\ requests'[r].status \notin Working
      /\ \A q \in Requests \ {r} : requests'[q] = requests[q]
  BY DEF Cancel, Typed, RequestRow, Working
<1>2. CASE ~alone
  BY <1>1, <1>2 DEF Cancel, Attended, ActiveJobs
<1>3. CASE alone
  <2>1. j \in Jobs /\ jobs[j] \in JobRow
    BY <1>3 DEF Typed, RequestRow
  <2>2. \A q \in Requests \ {r} : requests[q].job = j => requests[q].status \notin Working
    BY <1>3 DEF LinkedActive, Working, ActiveRequest
  <2>3. \A i \in Jobs \ {j} : jobs'[i] = jobs[i]
    BY <1>3, <2>1 DEF Cancel, Typed
  <2>4. QED
    BY <1>1, <2>2, <2>3 DEF Attended, ActiveJobs
<1>4. QED
  BY <1>2, <1>3

LEMMA PrepareAttends ==
    ASSUME Typed, Overlooks, AllAttended, public, NEW w \in Workers, Prepare(w)
    PROVE  AllAttended'
<1> USE DEF AllAttended
<1>1. ASSUME UNCHANGED <<jobs, requests>>
      PROVE  AllAttended'
  BY <1>1 DEF Attended, ActiveJobs
<1>2. ASSUME NEW j, NEW status \in {"research_queued", "completed", "failed"},
             JoinRequests(j, status), \A i \in ActiveJobs : i \in ActiveJobs'
      PROVE  AllAttended'
  <2>1. ASSUME NEW r \in Requests, requests'[r].status \in Working
        PROVE  requests'[r] = requests[r]
    <3>1. PICK kept \in SUBSET {q \in Waiting : overlooked[q] # "no"} :
              requests' = [q \in Requests |->
                IF q \notin Waiting THEN requests[q]
                ELSE [requests[q] EXCEPT !.job = j, !.status = IF q \in kept THEN requests[q].status
                                                             ELSE status]]
      BY <1>2 DEF JoinRequests
    <3>2. PICK new : new = IF r \in kept THEN requests[r].status ELSE status
      OBVIOUS
    <3>3. r \in Waiting => requests'[r].status = new
      <4>1. [requests[r] EXCEPT !.job = j, !.status = new].status = new
        BY DEF Typed, RequestRow
      <4>2. r \in Waiting => requests'[r] = [requests[r] EXCEPT !.job = j, !.status = new]
        BY <3>1, <3>2
      <4>3. QED
        BY <4>1, <4>2
    <3>4. r \in kept => requests[r].status = "cancelled"
      BY <3>1 DEF Overlooks
    <3>5. r \notin Waiting
      BY <1>2, <2>1, <3>2, <3>3, <3>4 DEF Working
    <3>6. QED
      BY <3>1, <3>5
  <2>2. QED
    BY <1>2, <2>1 DEF Attended
<1>3. CASE JoinActiveJob \/ ReuseLastJob
  BY <1>2, <1>3 DEF JoinActiveJob, ReuseLastJob, ActiveJobs
<1>4. CASE CreateJob
  BY <1>2, <1>4 DEF CreateJob
<1>5. QED
  BY <1>1, <1>3, <1>4 DEF Prepare

LEMMA NextAttends ==
    Typed /\ Overlooks /\ AllAttended /\ public /\ public' /\ [Next]_vars => AllAttended'
<1> SUFFICES ASSUME Typed, Overlooks, AllAttended, public, public', [Next]_vars
             PROVE  AllAttended'
  OBVIOUS
<1> USE DEF AllAttended
<1>1. ASSUME UNCHANGED <<jobs, requests>>
      PROVE  AllAttended'
  BY <1>1 DEF Attended, ActiveJobs
<1>2. Typed' /\ \A j \in Jobs : jobs[j] \in JobRow
  BY NextTyped DEF Typed
<1>3. ASSUME NEW r \in Requests, Submit(r)
      PROVE  AllAttended'
  <2>1. requests'[r].status \notin Working
    BY <1>3 DEF Submit, Typed, RequestRow, Working
  <2>2. QED
    BY <1>3, <2>1 DEF Submit, Typed, Attended, ActiveJobs
<1>4. ASSUME NEW j \in Jobs, NEW c \in Calls, Reconcile(j, c)
      PROVE  AllAttended'
  <2>1. CASE jobs[j].status = "budget_deferred"
    <3>1. PICK counted \in {jobs[j].counted, TRUE} :
            jobs' = [jobs EXCEPT ![j] =
               GivenBack([jobs[j] EXCEPT !.stage = "finalize", !.counted = counted], "partial")]
      BY <1>4, <2>1 DEF Reconcile
    <3>2. counted \in BOOLEAN
      BY <1>2, <3>1 DEF JobRow
    <3>3. [jobs[j] EXCEPT !.stage = "finalize", !.counted = counted] \in JobRow
      BY <1>2, <3>2, FieldsType
    <3>4. GivenBack([jobs[j] EXCEPT !.stage = "finalize", !.counted = counted], "partial").status
            \in Active
      BY <3>3, RowStatus DEF Active
    <3>5. QED
      BY <1>4, <2>1, <3>1, <3>4, JobGoesOn DEF Reconcile
  <2>2. QED
    BY <1>1, <1>4, <2>1 DEF Reconcile
<1>5. ASSUME NEW j \in Jobs, TimePasses(j) \/ LeaseLapses(j)
      PROVE  AllAttended'
  <2>1. /\ [jobs[j] EXCEPT !.late = TRUE].status = jobs[j].status
        /\ [jobs[j] EXCEPT !.lease = "lapsed"].status = jobs[j].status
    BY <1>2, RowStatus
  <2>2. QED
    BY <1>5, <2>1, OneJobStays DEF TimePasses, LeaseLapses
<1>6. ASSUME NEW w \in Workers, NEW j \in Jobs, Lease(w, j)
      PROVE  AllAttended'
  <2>1. [jobs[j] EXCEPT !.status = "running", !.lease = "held"].status \in Active
    BY <1>2, RowStatus DEF Active
  <2>2. QED
    BY <1>6, <2>1, JobGoesOn DEF Lease
<1>7. ASSUME NEW w \in Workers, PreflightFails(w)
      PROVE  AllAttended'
  <2>1. JobOf(w) \in Jobs
    BY <1>7, WorkerJob DEF PreflightFails, At
  <2>2. \A r \in Requests : requests[r].job # JobOf(w) => requests'[r] = requests[r]
    BY <1>7 DEF PreflightFails
  <2>3. \A r \in Requests : requests[r].job = JobOf(w) => requests'[r].status \notin Working
    BY <1>7 DEF PreflightFails, Seen, Overlooks, Typed, RequestRow, Working, ActiveRequest
  <2>4. QED
    BY <1>7, <2>1, <2>2, <2>3, JobEnds DEF PreflightFails
<1>8. ASSUME NEW w \in Workers, NEW j \in Jobs, CancelAtLease(w, j)
      PROVE  AllAttended'
  BY <1>2, <1>8, HelpersAttend DEF CancelAtLease
<1>9. ASSUME NEW w \in Workers,
             \/ DeferInDoubt(w) \/ \E status \in {"completed", "failed"} : Finalize(w, status)
             \/ CallRefused(w) \/ StopAfterCall(w)
      PROVE  AllAttended'
  <2>1. JobOf(w) \in Jobs
    BY <1>9, WorkerJob DEF DeferInDoubt, Finalize, CallRefused, StopAfterCall, Ready, At
  <2>2. QED
    BY <1>2, <1>9, <2>1, HelpersAttend DEF DeferInDoubt, Finalize, CallRefused, StopAfterCall
<1>10. ASSUME NEW w \in Workers,
              \/ \E answer \in Answers : AnswerPage(w, answer)
              \/ PageWithoutCall(w)
              \/ \E outcome \in {"primary", "closed"} : SaveGroup(w, outcome)
       PROVE  AllAttended'
  <2>1. JobOf(w) \in Jobs
    BY <1>10, WorkerJob DEF AnswerPage, PageWithoutCall, SaveGroup, At
  <2>2. PICK job : SaveJob(JobOf(w), job)
    BY <1>10 DEF AnswerPage, PageWithoutCall, SaveGroup
  <2>3. QED
    BY <1>2, <2>1, <2>2, HelpersAttend
<1>11. ASSUME NEW w \in Workers, SearchesExhausted(w) \/ PagesDone(w)
       PROVE  AllAttended'
  <2>1. JobOf(w) \in Jobs
    BY <1>11, WorkerJob DEF SearchesExhausted, PagesDone, Ready, At
  <2>2. PICK job : jobs' = [jobs EXCEPT ![JobOf(w)] = GivenBack(job, "partial")]
    BY <1>11 DEF SearchesExhausted, PagesDone
  <2>3. GivenBack(job, "partial").status \in Active
    BY <1>2, <2>1, <2>2, GivenBackStatus DEF Typed, Active
  <2>4. UNCHANGED requests
    BY <1>11 DEF SearchesExhausted, PagesDone
  <2>5. QED
    BY <2>1, <2>2, <2>3, <2>4, OneJobStays
<1>12. ASSUME NEW w \in Workers, StopLate(w) \/ \E answer \in Answers : AnswerSearch(w, answer)
       PROVE  AllAttended'
  <2>1. JobOf(w) \in Jobs
    BY <1>12, WorkerJob DEF StopLate, AnswerSearch, Ready, At
  <2>2. /\ [jobs[JobOf(w)] EXCEPT !.stage = "finalize"].status = jobs[JobOf(w)].status
        /\ \A counted : [jobs[JobOf(w)] EXCEPT !.counted = counted].status = jobs[JobOf(w)].status
    BY <1>2, <2>1, RowStatus
  <2>3. QED
    BY <1>12, <2>1, <2>2, OneJobStays DEF StopLate, AnswerSearch
<1>13. ASSUME NEW w \in Workers, CompanyWithdrawn(w)
       PROVE  FALSE
  BY <1>13 DEF CompanyWithdrawn
<1>14. ASSUME NEW w \in Workers,
              \/ NothingToDo(w) \/ Begin(w) \/ AnswerKnown(w) \/ Reserve(w) \/ Dispatch(w)
              \/ DispatchCancelled(w) \/ CallProvider(w) \/ FallBack(w) \/ Enough(w)
              \/ FetchPage(w) \/ StepEnds(w) \/ Crash(w)
       PROVE  AllAttended'
  BY <1>1, <1>14
     DEF NothingToDo, Begin, AnswerKnown, Reserve, Dispatch, DispatchCancelled, CallProvider,
         FallBack, Enough, FetchPage, StepEnds, Crash
<1>15. CASE Withdraw \/ NewPolicy \/ OthersChange \/ UNCHANGED vars
  BY <1>1, <1>15 DEF Withdraw, NewPolicy, OthersChange, vars
<1>16. QED
  BY <1>3, <1>4, <1>5, <1>6, <1>7, <1>8, <1>9, <1>10, <1>11, <1>12, <1>13, <1>14, <1>15,
     CancelAttends, PrepareAttends
     DEF Next, WorkerStep, WorkerAction

(* While the company is shared, a request that shows work under way belongs *)
(* to a job that will still be worked on.                                   *)
THEOREM WorkIsUnderWay == Spec => []WorkingRequestHasActiveJob
<1>1. Init => WorkingRequestHasActiveJob
  BY DEF Init, WorkingRequestHasActiveJob
<1>2. WorkingRequestHasActiveJob <=> (public => AllAttended)
  BY DEF WorkingRequestHasActiveJob, AllAttended, Attended, Working
<1>3. ASSUME NEW w \in Workers, WorkerAction(w)
      PROVE  UNCHANGED public
  <2>1. CASE CallProvider(w)
    BY <2>1 DEF CallProvider
  <2>2. CASE ~CallProvider(w)
    <3>1. UNCHANGED environment
      BY <1>3, <2>2
         DEF WorkerAction, Prepare, NothingToDo, CancelAtLease, Lease, PreflightFails,
             CompanyWithdrawn, DeferInDoubt, StopLate, Begin, SearchesExhausted, Finalize,
             AnswerKnown, Reserve, Dispatch, DispatchCancelled, CallRefused, AnswerSearch,
             AnswerPage, StopAfterCall, FallBack, Enough, SaveGroup, FetchPage,
             PageWithoutCall, PagesDone, StepEnds
    <3>2. QED
      BY <3>1 DEF environment
  <2>3. QED
    BY <2>1, <2>2
<1>4. [Next]_vars /\ public' => public
  BY <1>3 DEF Next, WorkerStep, Crash, vars, environment, Submit, Cancel, Reconcile, TimePasses,
         LeaseLapses, Withdraw, NewPolicy, OthersChange
<1>5. Typed /\ Overlooks /\ WorkingRequestHasActiveJob /\ [Next]_vars =>
        WorkingRequestHasActiveJob'
  <2> SUFFICES ASSUME Typed, Overlooks, public => AllAttended, [Next]_vars, public'
               PROVE  AllAttended'
    BY <1>2 DEF WorkingRequestHasActiveJob, AllAttended, Attended, Working
  <2>1. QED
    BY <1>4, NextAttends
<1>6. QED
  BY <1>1, <1>5, AlwaysTyped, AlwaysOverlooks, PTL DEF Spec

-----------------------------------------------------------------------------
(* Calls in doubt, when a single worker runs.  While it is on its way to a     *)
(* call, or has its answer, no call of its job is in doubt; between the two     *)
(* only the call it is at.                                                     *)
Alone == \A v, w \in Workers : v = w
Doubts(j) == {c \in Calls : calls[j][c] \in InDoubt}
Clear == {"fetch", "call", "reserved", "refused", "made", "checked", "saved", "finalizing"}
Fits(w) ==
    /\ workers[w].pc \in Clear => Doubts(JobOf(w)) = {}
    /\ workers[w].pc \in {"sent", "answered"} => Doubts(JobOf(w)) \subseteq {CallOf(w)}
OneDoubt ==
    /\ \A j \in Jobs : \A c, d \in Doubts(j) : c = d
    /\ \A w \in Workers : Fits(w)

LEMMA DoubtsShrink ==
    ASSUME Alone, OneDoubt, NEW w \in Workers, Fits(w)',
           \A j \in Jobs : Doubts(j)' \subseteq Doubts(j)
    PROVE  OneDoubt'
<1>1. \A v \in Workers : v = w
  BY DEF Alone
<1>2. \A v \in Workers : Fits(v)'
  BY <1>1
<1>3. QED
  BY <1>2 DEF OneDoubt

LEMMA SameDoubts ==
    ASSUME UNCHANGED calls
    PROVE  \A j \in Jobs : Doubts(j)' = Doubts(j)
  BY DEF Doubts

LEMMA RecoveredDoubts ==
    ASSUME Typed, NEW i \in Jobs, NEW flag,
           calls' = [calls EXCEPT ![i] = Recovered(@, flag)]
    PROVE  \A j \in Jobs : Doubts(j)' = Doubts(j)
<1>1. ASSUME NEW j \in Jobs, NEW c \in Calls
      PROVE  calls'[j][c] \in InDoubt <=> calls[j][c] \in InDoubt
  BY DEF Typed, Recovered, InDoubt
<1>2. QED
  BY <1>1 DEF Doubts

LEMMA SetDoubts ==
    ASSUME Typed, NEW w \in Workers, NEW i \in Jobs, i = JobOf(w),
           NEW call \in Calls, call = CallOf(w), NEW state, SetCall(w, state)
    PROVE  /\ \A j \in Jobs \ {i} : Doubts(j)' = Doubts(j)
           /\ Doubts(i)' = IF state \in InDoubt THEN Doubts(i) \cup {call}
                           ELSE Doubts(i) \ {call}
<1>1. calls' = [calls EXCEPT ![i] = [@ EXCEPT ![call] = state]]
  BY DEF SetCall
<1>2. ASSUME NEW j \in Jobs \ {i} PROVE calls'[j] = calls[j]
  BY <1>1 DEF Typed
<1>3. ASSUME NEW c \in Calls PROVE calls'[i][c] = IF c = call THEN state ELSE calls[i][c]
  BY <1>1 DEF Typed
<1>4. QED
  BY <1>2, <1>3 DEF Doubts

LEMMA RestFits ==
    ASSUME Typed, NEW w \in Workers, Rest(w) PROVE Fits(w)'
<1>1. workers'[w].pc = "idle"
  BY DEF Rest, Typed
<1>2. QED
  BY <1>1 DEF Fits, Clear

(* A worker that has found its job without a doubt goes on.                   *)
LEMMA GoesOn ==
    ASSUME Typed, Alone, OneDoubt, NEW w \in Workers, UNCHANGED calls,
           NEW i \in Jobs, i = JobOf(w), Doubts(i) = {},
           NEW p, workers' = [workers EXCEPT ![w] = p], p.job = i, p.pc \notin {"sent", "answered"}
    PROVE  OneDoubt'
<1>1. \A j \in Jobs : Doubts(j)' = Doubts(j)
  BY SameDoubts
<1>2. workers'[w] = p
  BY DEF Typed
<1>3. JobOf(w)' = i
  BY <1>2 DEF JobOf
<1>4. Doubts(i)' = {}
  BY <1>1
<1>5. Doubts(JobOf(w))' = {}
  BY <1>3, <1>4 DEF Doubts
<1>6. Fits(w)'
  BY <1>2, <1>5 DEF Fits
<1>7. QED
  BY <1>1, <1>6, DoubtsShrink

LEMMA RestKeepsOne ==
    ASSUME Typed, Alone, OneDoubt, NEW w \in Workers, Rest(w),
           \A j \in Jobs : Doubts(j)' \subseteq Doubts(j)
    PROVE  OneDoubt'
  BY RestFits, DoubtsShrink

(* A handler that runs no step of the worker.                                 *)
LEMMA OthersKeepOne ==
    ASSUME Typed, OneDoubt, UNCHANGED workers, \A j \in Jobs : Doubts(j)' \subseteq Doubts(j)
    PROVE  OneDoubt'
<1>1. ASSUME NEW w \in Workers PROVE Fits(w)'
  <2>1. PICK i : i = JobOf(w)
    OBVIOUS
  <2>2. JobOf(w)' = i /\ CallOf(w)' = CallOf(w)
    BY <2>1 DEF JobOf, CallOf
  <2>3. CASE workers[w].pc \in Clear \cup {"sent", "answered"}
    <3>1. i \in Jobs
      BY <2>1, <2>3, WorkerJob DEF Clear
    <3>2. Doubts(i)' \subseteq Doubts(i)
      BY <3>1
    <3>3. Doubts(JobOf(w))' \subseteq Doubts(i)
      BY <2>2, <3>2 DEF Doubts
    <3>4. QED
      BY <2>1, <2>2, <3>3 DEF OneDoubt, Fits
  <2>4. CASE workers[w].pc \notin Clear \cup {"sent", "answered"}
    BY <2>4 DEF Fits
  <2>5. QED
    BY <2>3, <2>4
<1>2. QED
  BY <1>1 DEF OneDoubt

LEMMA ClearOfDoubt ==
    ASSUME Typed, OneDoubt, NEW w \in Workers, workers[w].pc \in Clear
    PROVE  JobOf(w) \in Jobs /\ Doubts(JobOf(w)) = {}
<1>1. JobOf(w) \in Jobs
  BY WorkerJob DEF Clear
<1>2. QED
  BY <1>1 DEF OneDoubt, Fits

LEMMA ReadyIsClear ==
    ASSUME Typed, NEW w \in Workers, Ready(w)
    PROVE  JobOf(w) \in Jobs /\ Doubts(JobOf(w)) = {}
<1>1. JobOf(w) \in Jobs
  BY WorkerJob DEF Ready, At
<1>2. QED
  BY <1>1 DEF Ready, HasDoubt, Doubts

(* The steps of a worker that only move it, or that end its work.             *)
LEMMA MovesKeepOne ==
    ASSUME Typed, Alone, OneDoubt, NEW w \in Workers,
           \/ StopLate(w) \/ Begin(w) \/ AnswerKnown(w) \/ FallBack(w) \/ Enough(w)
           \/ FetchPage(w) \/ PageWithoutCall(w)
    PROVE  OneDoubt'
<1>1. JobOf(w) \in Jobs /\ Doubts(JobOf(w)) = {} /\ UNCHANGED calls
  <2>1. CASE StopLate(w) \/ Begin(w)
    BY <2>1, ReadyIsClear DEF StopLate, Begin
  <2>2. CASE AnswerKnown(w) \/ FallBack(w) \/ Enough(w) \/ FetchPage(w) \/ PageWithoutCall(w)
    BY <2>2, ClearOfDoubt DEF AnswerKnown, FallBack, Enough, FetchPage, PageWithoutCall, At, Clear
  <2>3. QED
    BY <2>1, <2>2
<1>2. PICK p : /\ workers' = [workers EXCEPT ![w] = p]
               /\ p.job = workers[w].job /\ p.pc \notin {"sent", "answered"}
  <2>1. workers[w] \in [pc : PCs, job : {0} \cup Jobs, call : {NoCall} \cup Calls]
    BY DEF Typed, WorkerRow
  <2>2. ASSUME NEW pc, pc \notin {"sent", "answered"}, Goto(w, pc)
        PROVE  \E p : /\ workers' = [workers EXCEPT ![w] = p]
                      /\ p.job = workers[w].job /\ p.pc \notin {"sent", "answered"}
    <3>1. PICK p : p = [workers[w] EXCEPT !.pc = pc]
      OBVIOUS
    <3>2. p.job = workers[w].job /\ p.pc = pc
      BY <2>1, <3>1
    <3>3. workers' = [workers EXCEPT ![w] = p]
      BY <2>2, <3>1 DEF Goto, Typed
    <3>4. QED
      BY <2>2, <3>2, <3>3
  <2>3. ASSUME NEW c, Call(w, c)
        PROVE  \E p : /\ workers' = [workers EXCEPT ![w] = p]
                      /\ p.job = workers[w].job /\ p.pc \notin {"sent", "answered"}
    <3>1. PICK p : p = [workers[w] EXCEPT !.pc = "call", !.call = c]
      OBVIOUS
    <3>2. p.job = workers[w].job /\ p.pc = "call"
      BY <2>1, <3>1
    <3>3. workers' = [workers EXCEPT ![w] = p]
      BY <2>3, <3>1 DEF Call, Typed
    <3>4. QED
      BY <3>2, <3>3
  <2>4. QED
    BY <2>2, <2>3 DEF StopLate, Begin, AnswerKnown, FallBack, Enough, FetchPage, PageWithoutCall
<1>3. QED
  BY <1>1, <1>2, GoesOn DEF JobOf

LEMMA EndsKeepOne ==
    ASSUME Typed, Alone, OneDoubt, NEW w \in Workers,
           \/ NothingToDo(w) \/ \E j \in Jobs : CancelAtLease(w, j)
           \/ PreflightFails(w) \/ CompanyWithdrawn(w) \/ DeferInDoubt(w) \/ SearchesExhausted(w)
           \/ \E status \in {"completed", "failed"} : Finalize(w, status)
           \/ CallRefused(w) \/ StopAfterCall(w)
           \/ \E outcome \in {"primary", "closed"} : SaveGroup(w, outcome)
           \/ PagesDone(w) \/ StepEnds(w) \/ Crash(w)
    PROVE  OneDoubt'
<1>1. Rest(w)
  BY DEF NothingToDo, CancelAtLease, PreflightFails, CompanyWithdrawn, DeferInDoubt,
     SearchesExhausted, Finalize, CallRefused, StopAfterCall, SaveGroup, PagesDone, StepEnds, Crash
<1>2. \/ UNCHANGED calls
      \/ \E j \in Jobs, flag \in BOOLEAN : calls' = [calls EXCEPT ![j] = Recovered(@, flag)]
  <2>1. CASE \E j \in Jobs : CancelAtLease(w, j)
    BY <2>1 DEF CancelAtLease, CancelJob
  <2>2. CASE DeferInDoubt(w)
    BY <2>2, WorkerJob DEF DeferInDoubt, At
  <2>3. CASE CallRefused(w) \/ StopAfterCall(w)
    <3>1. JobOf(w) \in Jobs
      BY <2>3, WorkerJob DEF CallRefused, StopAfterCall, At
    <3>2. CancelJob(JobOf(w)) \/ UNCHANGED calls
      BY <2>3 DEF CallRefused, StopAfterCall
    <3>3. QED
      BY <3>1, <3>2 DEF CancelJob
  <2>4. CASE \/ NothingToDo(w) \/ PreflightFails(w) \/ CompanyWithdrawn(w)
             \/ SearchesExhausted(w) \/ PagesDone(w) \/ StepEnds(w) \/ Crash(w)
             \/ \E status \in {"completed", "failed"} : Finalize(w, status)
             \/ \E outcome \in {"primary", "closed"} : SaveGroup(w, outcome)
    BY <2>4 DEF NothingToDo, PreflightFails, CompanyWithdrawn, SearchesExhausted, PagesDone,
       StepEnds, Crash, Finalize, SaveGroup
  <2>5. QED
    BY <2>1, <2>2, <2>3, <2>4
<1>3. \A j \in Jobs : Doubts(j)' = Doubts(j)
  BY <1>2, SameDoubts, RecoveredDoubts
<1>4. QED
  BY <1>1, <1>3, RestKeepsOne

LEMMA Moved ==
    ASSUME Typed, NEW w \in Workers, NEW pc, Goto(w, pc)
    PROVE  workers'[w].pc = pc /\ JobOf(w)' = JobOf(w) /\ CallOf(w)' = CallOf(w)
<1>1. workers[w] \in [pc : PCs, job : {0} \cup Jobs, call : {NoCall} \cup Calls]
  BY DEF Typed, WorkerRow
<1>2. workers'[w] = [workers[w] EXCEPT !.pc = pc]
  BY DEF Goto, Typed
<1>3. QED
  BY <1>1, <1>2 DEF JobOf, CallOf

(* The place of a worker after a step on its call.                            *)
LEMMA FitsAfter ==
    ASSUME Typed, NEW w \in Workers, NEW pc, Goto(w, pc), NEW i, i = JobOf(w),
           NEW call, call = CallOf(w),
           pc \in Clear => Doubts(i)' = {}, Doubts(i)' \subseteq {call}
    PROVE  Fits(w)'
<1>1. workers'[w].pc = pc /\ JobOf(w)' = i /\ CallOf(w)' = call
  BY Moved
<1>2. Doubts(JobOf(w))' = Doubts(i)'
  BY <1>1 DEF Doubts
<1>3. QED
  BY <1>1, <1>2 DEF Fits

LEMMA CallsKeepOne ==
    ASSUME Typed, Alone, OneDoubt, NEW w \in Workers,
           \/ Reserve(w) \/ Dispatch(w) \/ DispatchCancelled(w) \/ CallProvider(w)
           \/ \E answer \in Answers : AnswerSearch(w, answer) \/ AnswerPage(w, answer)
    PROVE  OneDoubt'
<1>1. PICK i \in Jobs, call \in Calls : i = JobOf(w) /\ call = CallOf(w)
  <2>1. workers[w].pc \in {"call", "reserved", "sent", "answered"}
    BY DEF Reserve, Dispatch, DispatchCancelled, CallProvider, AnswerSearch, AnswerPage, At
  <2>2. QED
    BY <2>1, WorkerJob DEF AtCall
<1>2. CASE Reserve(w) \/ DispatchCancelled(w)
  <2>1. PICK state \in {"reserved", "released"}, pc \in Clear : SetCall(w, state) /\ Goto(w, pc)
    BY <1>2 DEF Reserve, DispatchCancelled, Clear
  <2>2. Doubts(i) = {}
    BY <1>1, <1>2, ClearOfDoubt DEF Reserve, DispatchCancelled, At, Clear
  <2>3. /\ \A j \in Jobs \ {i} : Doubts(j)' = Doubts(j)
        /\ Doubts(i)' = IF state \in InDoubt THEN Doubts(i) \cup {call} ELSE Doubts(i) \ {call}
    BY <1>1, <2>1, SetDoubts
  <2>4. Doubts(i)' = {}
    BY <2>2, <2>3 DEF InDoubt
  <2>5. Fits(w)'
    BY <1>1, <2>1, <2>4, FitsAfter
  <2>6. \A j \in Jobs : Doubts(j)' \subseteq Doubts(j)
    BY <2>2, <2>3, <2>4
  <2>7. QED
    BY <2>5, <2>6, DoubtsShrink
<1>3. CASE Dispatch(w)
  <2>1. Doubts(i) = {}
    BY <1>1, <1>3, ClearOfDoubt DEF Dispatch, At, Clear
  <2>2. SetCall(w, "in_flight") /\ Goto(w, "sent")
    BY <1>3 DEF Dispatch
  <2>3. /\ \A j \in Jobs \ {i} : Doubts(j)' = Doubts(j)
        /\ Doubts(i)' = IF "in_flight" \in InDoubt THEN Doubts(i) \cup {call}
                        ELSE Doubts(i) \ {call}
    BY <1>1, <2>2, SetDoubts
  <2>4. Doubts(i)' = {call}
    BY <2>1, <2>3 DEF InDoubt
  <2>5. Fits(w)'
    BY <1>1, <2>2, <2>4, FitsAfter DEF Clear
  <2>6. \A j \in Jobs : \A c, d \in Doubts(j)' : c = d
    BY <2>3, <2>4 DEF OneDoubt
  <2>7. QED
    BY <2>5, <2>6 DEF OneDoubt, Alone
<1>4. CASE CallProvider(w)
  <2>1. UNCHANGED calls /\ Goto(w, "answered") /\ workers[w].pc = "sent"
    BY <1>4 DEF CallProvider, At
  <2>2. \A j \in Jobs : Doubts(j)' = Doubts(j)
    BY <2>1, SameDoubts
  <2>3. Doubts(i) \subseteq {call}
    BY <1>1, <2>1 DEF OneDoubt, Fits
  <2>4. Doubts(i)' \subseteq {call}
    BY <2>2, <2>3
  <2>5. Fits(w)'
    BY <1>1, <2>1, <2>4, FitsAfter DEF Clear
  <2>6. QED
    BY <2>2, <2>5, DoubtsShrink
<1>5. CASE \E answer \in Answers : AnswerSearch(w, answer) \/ AnswerPage(w, answer)
  <2>1. PICK answer \in Answers, pc \in Clear : Settle(w, answer) /\ Goto(w, pc)
    BY <1>5 DEF AnswerSearch, AnswerPage, Clear
  <2>2. Doubts(i) \subseteq {call}
    BY <1>1, <1>5 DEF AnswerSearch, AnswerPage, At, OneDoubt, Fits
  <2>3. Doubts(i)' = {} /\ \A j \in Jobs \ {i} : Doubts(j)' = Doubts(j)
    <3>1. CASE SetCall(w, answer)
      <4>1. /\ \A j \in Jobs \ {i} : Doubts(j)' = Doubts(j)
            /\ Doubts(i)' = IF answer \in InDoubt THEN Doubts(i) \cup {call}
                            ELSE Doubts(i) \ {call}
        BY <1>1, <3>1, SetDoubts
      <4>2. answer \notin InDoubt
        BY DEF Answers, InDoubt
      <4>3. QED
        BY <2>2, <4>1, <4>2
    <3>2. CASE UNCHANGED calls /\ StateOf(w) \notin InDoubt
      <4>1. \A j \in Jobs : Doubts(j)' = Doubts(j)
        BY <3>2, SameDoubts
      <4>2. call \notin Doubts(i)
        BY <1>1, <3>2 DEF StateOf, Doubts
      <4>3. QED
        BY <2>2, <4>1, <4>2
    <3>3. QED
      BY <2>1, <3>1, <3>2 DEF Settle
  <2>4. Fits(w)'
    BY <1>1, <2>1, <2>3, FitsAfter
  <2>5. \A j \in Jobs : Doubts(j)' \subseteq Doubts(j)
    BY <2>3
  <2>6. QED
    BY <2>4, <2>5, DoubtsShrink
<1>6. QED
  BY <1>2, <1>3, <1>4, <1>5

LEMMA EnvironmentKeepsOne ==
    ASSUME Typed, OneDoubt,
           \/ \E r \in Requests : Submit(r) \/ Cancel(r)
           \/ \E j \in Jobs, c \in Calls : Reconcile(j, c)
           \/ \E j \in Jobs : TimePasses(j) \/ LeaseLapses(j)
           \/ Withdraw \/ NewPolicy \/ OthersChange \/ UNCHANGED vars
    PROVE  OneDoubt'
<1>1. CASE \E j \in Jobs, c \in Calls : Reconcile(j, c)
  <2>1. PICK i \in Jobs, c \in Calls : calls' = [calls EXCEPT ![i] = [@ EXCEPT ![c] = "lost"]]
    BY <1>1 DEF Reconcile
  <2>2. ASSUME NEW j \in Jobs, NEW d \in Calls, calls'[j][d] \in InDoubt
        PROVE  calls[j][d] \in InDoubt
    BY <2>1, <2>2 DEF Typed, InDoubt
  <2>3. \A j \in Jobs : Doubts(j)' \subseteq Doubts(j)
    BY <2>2 DEF Doubts
  <2>4. QED
    BY <1>1, <2>3, OthersKeepOne DEF Reconcile, environment
<1>2. CASE \/ \E r \in Requests : Submit(r) \/ Cancel(r)
           \/ \E j \in Jobs : TimePasses(j) \/ LeaseLapses(j)
           \/ Withdraw \/ NewPolicy \/ OthersChange \/ UNCHANGED vars
  <2>1. UNCHANGED <<calls, workers>>
    BY <1>2 DEF Submit, Cancel, TimePasses, LeaseLapses, Withdraw, NewPolicy, OthersChange,
     vars, environment
  <2>2. QED
    BY <2>1, SameDoubts, OthersKeepOne
<1>3. QED
  BY <1>1, <1>2

LEMMA LeasesKeepOne ==
    ASSUME Typed, Alone, OneDoubt, NEW w \in Workers, Prepare(w) \/ \E j \in Jobs : Lease(w, j)
    PROVE  OneDoubt'
<1>1. UNCHANGED calls
  BY DEF Prepare, Lease
<1>2. workers[w] \in [pc : PCs, job : {0} \cup Jobs, call : {NoCall} \cup Calls]
  BY DEF Typed, WorkerRow
<1>3. workers'[w].pc \in {"prepared", "leased"}
  <2>1. CASE Prepare(w)
    BY <2>1, Moved DEF Prepare
  <2>2. ASSUME NEW j \in Jobs, Lease(w, j) PROVE workers'[w].pc = "leased"
    <3>1. workers'[w] = [workers[w] EXCEPT !.pc = "leased", !.job = j]
      BY <2>2 DEF Lease, Typed
    <3>2. QED
      BY <1>2, <3>1
  <2>3. QED
    BY <2>1, <2>2
<1>4. Fits(w)'
  BY <1>3 DEF Fits, Clear
<1>5. QED
  BY <1>1, <1>4, SameDoubts, DoubtsShrink

LEMMA OneKept == Typed /\ Alone /\ OneDoubt /\ [Next]_vars => OneDoubt'
<1> SUFFICES ASSUME Typed, Alone, OneDoubt, [Next]_vars
             PROVE  OneDoubt'
  OBVIOUS
<1>1. ASSUME NEW w \in Workers, WorkerStep(w) \/ Crash(w)
      PROVE  OneDoubt'
  BY <1>1, MovesKeepOne, EndsKeepOne, CallsKeepOne, LeasesKeepOne DEF WorkerStep, WorkerAction
<1>2. QED
  BY <1>1, EnvironmentKeepsOne DEF Next

LEMMA OneStarts == Init => OneDoubt
<1> SUFFICES ASSUME Init
             PROVE  OneDoubt
  OBVIOUS
<1>1. \A j \in Jobs : Doubts(j) = {}
  BY DEF Init, Doubts, InDoubt
<1>2. \A w \in Workers : Fits(w)
  BY DEF Init, Fits, Clear
<1>3. QED
  BY <1>1, <1>2 DEF OneDoubt

LEMMA OneAlways == ASSUME Alone PROVE Spec => []OneDoubt
<1>1. Typed /\ OneDoubt /\ [Next]_vars => OneDoubt'
  BY OneKept
<1>2. QED
  BY <1>1, OneStarts, AlwaysTyped, PTL DEF Spec

(* With a single worker, as the deployment runs, at most one call of a job     *)
(* has an outcome nobody knows, whatever crashes and recoveries come between   *)
(* (_reserve_job_call, budget.recover and the deferral of a step that finds a   *)
(* call in doubt).                                                             *)
THEOREM SingleWorkerSingleDoubt == Alone => (Spec => []OneCallInDoubt)
<1> SUFFICES ASSUME Alone
             PROVE  Spec => []OneCallInDoubt
  OBVIOUS
<1>1. ASSUME OneDoubt, NEW j \in Jobs
      PROVE  Cardinality({c \in Calls : calls[j][c] \in InDoubt}) <= 1
  <2>1. PICK D : D = {c \in Calls : calls[j][c] \in InDoubt}
    OBVIOUS
  <2>2. \A c, d \in D : c = d
    BY <1>1, <2>1 DEF OneDoubt, Doubts
  <2>3. CASE D = {}
    BY <2>1, <2>3, FS_EmptySet
  <2>4. CASE D # {}
    <3>1. PICK c : D = {c}
      BY <2>2, <2>4
    <3>2. QED
      BY <2>1, <3>1, FS_Singleton
  <2>5. QED
    BY <2>3, <2>4
<1>2. OneDoubt => OneCallInDoubt
  BY <1>1 DEF OneCallInDoubt
<1>3. QED
  BY <1>2, OneAlways, PTL

-----------------------------------------------------------------------------
(* Jobs are numbered one after the other, and whoever names one names a job    *)
(* that exists.                                                               *)
Numbered ==
    /\ \E n \in Nat : Known = 1 .. n
    /\ \A r \in Requests : requests[r].job \in {0} \cup Known
    /\ \A w \in Workers : workers[w].job \in {0} \cup Known
    /\ \A j \in Jobs \ Known : Doubts(j) = {}

(* What may become of a job: it stays where it is, or none of its calls stays *)
(* in doubt.                                                                  *)
Stays(row, j) ==
    /\ row.stage = jobs[j].stage /\ row.page = jobs[j].page
    /\ row.status = "completed" => jobs[j].status = "completed"
Resolved(j) == \A c \in Calls : ~(calls[j][c] = "uncertain" /\ calls'[j][c] = "uncertain")
JobsSound ==
    \A j \in Jobs : \/ jobs'[j] = jobs[j]
                    \/ /\ j \in Known /\ jobs'[j].status # "absent"
                       /\ Stays(jobs'[j], j) \/ Resolved(j)

LEMMA OneJobSound ==
    ASSUME Typed, NEW i \in Known, NEW row, jobs' = [jobs EXCEPT ![i] = row],
           row.status # "absent", Stays(row, i) \/ Resolved(i)
    PROVE  JobsSound
<1>1. i \in Jobs /\ jobs'[i] = row /\ \A j \in Jobs \ {i} : jobs'[j] = jobs[j]
  BY DEF Typed, Known
<1>2. QED
  BY <1>1 DEF JobsSound

LEMMA RowFields ==
    ASSUME NEW job \in JobRow, NEW status
    PROVE  /\ GivenBack(job, status).status = status
           /\ GivenBack(job, status).stage = job.stage /\ GivenBack(job, status).page = job.page
           /\ Stopped(job) \in JobRow /\ Stopped(job).status = job.status
           /\ Stopped(job).stage = job.stage /\ Stopped(job).page = job.page
  BY DEF GivenBack, Stopped, JobRow

LEMMA DroppingFields ==
    ASSUME NEW job \in JobRow, NEW outcome
    PROVE  Dropping(job, outcome).stage = job.stage /\ Dropping(job, outcome).page = job.page
  BY DEF Dropping, JobRow

(* A job that is given up, put off or failed stays at its stage.              *)
LEMMA GivenUpSound ==
    ASSUME Typed, NEW i \in Known, CancelJob(i) \/ DeferJob(i)
    PROVE  JobsSound
<1>1. i \in Jobs /\ jobs[i] \in JobRow
  BY DEF Typed, Known
<1>2. CASE CancelJob(i)
  <2>1. PICK row : row = GivenBack(jobs[i], "cancelled")
    OBVIOUS
  <2>2. row.status = "cancelled" /\ Stays(row, i)
    BY <1>1, <2>1, RowFields DEF Stays
  <2>3. jobs' = [jobs EXCEPT ![i] = row]
    BY <1>2, <2>1 DEF CancelJob
  <2>4. QED
    BY <2>2, <2>3, OneJobSound
<1>3. CASE DeferJob(i)
  <2>1. PICK row, dropped : /\ dropped = Dropping(jobs[i], "deferred")
                            /\ row = GivenBack(dropped, "budget_deferred")
    OBVIOUS
  <2>2. dropped \in JobRow /\ dropped.stage = jobs[i].stage /\ dropped.page = jobs[i].page
    BY <1>1, <2>1, DroppingType, DroppingFields
  <2>3. row.status = "budget_deferred" /\ Stays(row, i)
    BY <2>1, <2>2, RowFields DEF Stays
  <2>4. jobs' = [jobs EXCEPT ![i] = row]
    BY <1>3, <2>1 DEF DeferJob
  <2>5. QED
    BY <2>3, <2>4, OneJobSound
<1>4. QED
  BY <1>2, <1>3

LEMMA KnownJob ==
    ASSUME Typed, Numbered, NEW w \in Workers, workers[w].pc \notin {"idle", "prepared"}
    PROVE  JobOf(w) \in Known /\ JobOf(w) \in Jobs /\ jobs[JobOf(w)] \in JobRow
           /\ jobs[JobOf(w)].status # "absent"
  BY WorkerJob DEF Numbered, JobOf, Typed, WorkerRow, Known

(* The steps that take a job on: none of its calls is in doubt.               *)
LEMMA ProgressSound ==
    ASSUME Typed, Typed', Numbered, OneDoubt, NEW w \in Workers,
           \/ StopLate(w) \/ SearchesExhausted(w) \/ PageWithoutCall(w) \/ PagesDone(w)
           \/ \E status \in {"completed", "failed"} : Finalize(w, status)
           \/ \E outcome \in {"primary", "closed"} : SaveGroup(w, outcome)
    PROVE  JobsSound
<1>1. PICK i \in Known : i = JobOf(w) /\ i \in Jobs /\ jobs[i] \in JobRow /\ jobs[i].status # "absent"
  BY KnownJob DEF StopLate, SearchesExhausted, PageWithoutCall, PagesDone, Finalize, SaveGroup,
     Ready, At
<1>2. Doubts(i) = {}
  BY <1>1, ReadyIsClear, ClearOfDoubt
     DEF StopLate, SearchesExhausted, PageWithoutCall, PagesDone, Finalize, SaveGroup, At, Clear
<1>3. Resolved(i)
  BY <1>2 DEF Resolved, Doubts, InDoubt
<1>4. CASE StopLate(w)
  <2>1. jobs' = [jobs EXCEPT ![i] = [jobs[i] EXCEPT !.stage = "finalize"]]
    BY <1>1, <1>4 DEF StopLate
  <2>2. [jobs[i] EXCEPT !.stage = "finalize"].status = jobs[i].status
    BY <1>1, RowStatus
  <2>3. QED
    BY <1>1, <1>3, <2>1, <2>2, OneJobSound
<1>5. CASE ~StopLate(w)
  <2>1. PICK status \in {"partial", "completed", "failed"} :
            \E job : jobs' = [jobs EXCEPT ![i] = GivenBack(job, status)]
    <3>1. CASE SearchesExhausted(w) \/ PagesDone(w)
      <4>1. PICK job : jobs' = [jobs EXCEPT ![i] = GivenBack(job, "partial")]
        BY <1>1, <3>1 DEF SearchesExhausted, PagesDone
      <4>2. QED
        BY <4>1
    <3>2. CASE PageWithoutCall(w) \/ \E outcome \in {"primary", "closed"} : SaveGroup(w, outcome)
      <4>1. PICK job : SaveJob(i, job)
        BY <1>1, <3>2 DEF PageWithoutCall, SaveGroup
      <4>2. QED
        BY <4>1 DEF SaveJob
    <3>3. CASE \E status \in {"completed", "failed"} : Finalize(w, status)
      <4>1. PICK status \in {"completed", "failed"} : FinalizeJob(i, status)
        BY <1>1, <3>3 DEF Finalize
      <4>2. jobs' = [jobs EXCEPT ![i] = GivenBack(jobs[i], status)]
        BY <4>1 DEF FinalizeJob
      <4>3. QED
        BY <4>2
    <3>4. QED
      BY <1>5, <3>1, <3>2, <3>3
  <2>2. PICK job : jobs' = [jobs EXCEPT ![i] = GivenBack(job, status)]
    BY <2>1
  <2>3. GivenBack(job, status) \in JobRow
    BY <1>1, <2>2 DEF Typed
  <2>4. GivenBack(job, status).status = status
    BY <2>3, GivenBackStatus
  <2>5. QED
    BY <1>3, <2>2, <2>4, OneJobSound
<1>6. QED
  BY <1>4, <1>5

LEMMA AnswerSound ==
    ASSUME Typed, Typed', Numbered, OneDoubt, NEW w \in Workers,
           NEW answer \in Answers, AnswerSearch(w, answer) \/ AnswerPage(w, answer)
    PROVE  JobsSound
<1>1. PICK i \in Known : i = JobOf(w) /\ i \in Jobs /\ jobs[i] \in JobRow /\ jobs[i].status # "absent"
  BY KnownJob DEF AnswerSearch, AnswerPage, At
<1>2. CASE AnswerSearch(w, answer)
  <2>1. PICK counted : jobs' = [jobs EXCEPT ![i] = [jobs[i] EXCEPT !.counted = counted]]
    BY <1>1, <1>2 DEF AnswerSearch
  <2>2. PICK row : row = [jobs[i] EXCEPT !.counted = counted]
    OBVIOUS
  <2>3. row.status = jobs[i].status /\ row.stage = jobs[i].stage /\ row.page = jobs[i].page
    BY <1>1, <2>2 DEF JobRow
  <2>4. Stays(row, i) /\ row.status # "absent"
    BY <1>1, <2>3 DEF Stays
  <2>5. QED
    BY <2>1, <2>2, <2>4, OneJobSound
<1>3. CASE AnswerPage(w, answer)
  <2>1. PICK job : jobs' = [jobs EXCEPT ![i] = GivenBack(job, "partial")]
    BY <1>1, <1>3 DEF AnswerPage, SaveJob
  <2>2. GivenBack(job, "partial") \in JobRow
    BY <1>1, <2>1 DEF Typed
  <2>3. GivenBack(job, "partial").status = "partial"
    BY <2>2, GivenBackStatus
  <2>4. PICK call \in Calls : call = CallOf(w) /\ Doubts(i) \subseteq {call}
    BY <1>1, <1>3, WorkerJob DEF AnswerPage, At, AtCall, OneDoubt, Fits
  <2>5. calls'[i][call] # "uncertain" \/ calls[i][call] \notin InDoubt
    <3>1. CASE calls[i][call] \in InDoubt
      <4>1. calls' = [calls EXCEPT ![i] = [@ EXCEPT ![call] = answer]]
        BY <1>1, <1>3, <2>4, <3>1 DEF AnswerPage, Settle, StateOf, SetCall
      <4>2. calls'[i][call] = answer
        BY <1>1, <4>1 DEF Typed
      <4>3. QED
        BY <4>2 DEF Answers
    <3>2. QED
      BY <3>1
  <2>6. Resolved(i)
    BY <2>4, <2>5 DEF Resolved, Doubts, InDoubt
  <2>7. QED
    BY <2>1, <2>3, <2>6, OneJobSound
<1>4. QED
  BY <1>2, <1>3

(* The other steps of a worker, none of which takes a job on.                 *)
LEMMA WorkerSound ==
    ASSUME Typed, Numbered, NEW w \in Workers,
           \/ \E j \in Jobs : CancelAtLease(w, j) \/ Lease(w, j)
           \/ PreflightFails(w) \/ CompanyWithdrawn(w) \/ DeferInDoubt(w)
           \/ CallRefused(w) \/ StopAfterCall(w)
    PROVE  JobsSound
<1>1. ASSUME NEW j \in Jobs, Leasable(j) PROVE j \in Known
  BY <1>1 DEF FirstInLine, Leasable, Known
<1>2. ASSUME NEW j \in Jobs, CancelAtLease(w, j) PROVE JobsSound
  BY <1>1, <1>2, GivenUpSound DEF CancelAtLease, FirstInLine
<1>3. ASSUME NEW j \in Jobs, Lease(w, j) PROVE JobsSound
  <2>1. j \in Known /\ jobs[j] \in JobRow
    BY <1>1, <1>3 DEF Lease, FirstInLine, Typed
  <2>2. PICK row : row = [jobs[j] EXCEPT !.status = "running", !.lease = "held"]
    OBVIOUS
  <2>3. row.status = "running" /\ Stays(row, j)
    BY <2>1, <2>2 DEF Stays, JobRow
  <2>4. jobs' = [jobs EXCEPT ![j] = row]
    BY <1>3, <2>2 DEF Lease
  <2>5. QED
    BY <2>1, <2>3, <2>4, OneJobSound
<1>4. CASE PreflightFails(w) \/ CompanyWithdrawn(w)
  <2>1. PICK i \in Known : i = JobOf(w) /\ jobs[i] \in JobRow
    BY <1>4, KnownJob DEF PreflightFails, CompanyWithdrawn, At
  <2>2. PICK row : /\ row = GivenBack(jobs[i], "failed") \/ row = [jobs[i] EXCEPT !.status = "failed"]
                   /\ jobs' = [jobs EXCEPT ![i] = row]
    BY <1>4, <2>1 DEF PreflightFails, CompanyWithdrawn
  <2>3. row.status = "failed" /\ Stays(row, i)
    BY <2>1, <2>2 DEF Stays, JobRow, GivenBack
  <2>4. QED
    BY <2>2, <2>3, OneJobSound
<1>5. CASE DeferInDoubt(w) \/ CallRefused(w) \/ StopAfterCall(w)
  <2>1. JobOf(w) \in Known
    BY <1>5, KnownJob DEF DeferInDoubt, CallRefused, StopAfterCall, At
  <2>2. CancelJob(JobOf(w)) \/ DeferJob(JobOf(w))
    BY <1>5 DEF DeferInDoubt, CallRefused, StopAfterCall
  <2>3. QED
    BY <2>1, <2>2, GivenUpSound
<1>6. QED
  BY <1>2, <1>3, <1>4, <1>5

LEMMA EnvironmentSound ==
    ASSUME Typed, Numbered, OneDoubt,
           \/ \E r \in Requests : Submit(r) \/ Cancel(r)
           \/ \E j \in Jobs, c \in Calls : Reconcile(j, c)
           \/ \E j \in Jobs : TimePasses(j) \/ LeaseLapses(j)
           \/ Withdraw \/ NewPolicy \/ OthersChange \/ UNCHANGED vars
    PROVE  JobsSound
<1>1. UNCHANGED jobs => JobsSound
  BY DEF JobsSound
<1>2. ASSUME NEW r \in Requests, Cancel(r) PROVE JobsSound
  <2>1. PICK j : j = requests[r].job
    OBVIOUS
  <2>2. CASE UNCHANGED jobs
    BY <1>1, <2>2
  <2>3. CASE jobs' # jobs
    <3>1. j # 0 /\ \/ jobs[j].status = "running" /\ jobs' = [jobs EXCEPT ![j] = Stopped(jobs[j])]
                   \/ jobs' = [jobs EXCEPT ![j] = GivenBack(Stopped(jobs[j]), "cancelled")]
      BY <1>2, <2>1, <2>3 DEF Cancel
    <3>2. j \in Known /\ jobs[j] \in JobRow
      BY <2>1, <3>1 DEF Numbered, Typed, Known
    <3>3. PICK row : /\ jobs' = [jobs EXCEPT ![j] = row]
                     /\ \/ jobs[j].status = "running" /\ row = Stopped(jobs[j])
                        \/ row = GivenBack(Stopped(jobs[j]), "cancelled")
      BY <3>1
    <3>4. row.status # "absent" /\ Stays(row, j)
      BY <3>2, <3>3, RowFields DEF Stays
    <3>5. QED
      BY <3>2, <3>3, <3>4, OneJobSound
  <2>4. QED
    BY <2>2, <2>3
<1>3. ASSUME NEW j \in Jobs, NEW c \in Calls, Reconcile(j, c) PROVE JobsSound
  <2>1. CASE jobs[j].status = "budget_deferred"
    <3>1. PICK counted \in {jobs[j].counted, TRUE} :
              jobs' = [jobs EXCEPT ![j] =
                 GivenBack([jobs[j] EXCEPT !.stage = "finalize", !.counted = counted], "partial")]
      BY <1>3, <2>1 DEF Reconcile
    <3>2. [jobs[j] EXCEPT !.stage = "finalize", !.counted = counted] \in JobRow
      <4>1. jobs[j] \in JobRow /\ counted \in BOOLEAN
        BY <3>1 DEF Typed, JobRow
      <4>2. QED
        BY <4>1, FieldsType
    <3>3. GivenBack([jobs[j] EXCEPT !.stage = "finalize", !.counted = counted], "partial").status
              = "partial"
      BY <3>2, RowStatus
    <3>4. calls[j][c] = "uncertain" /\ calls'[j][c] = "lost"
      BY <1>3 DEF Reconcile, Typed
    <3>5. Resolved(j)
      BY <3>4 DEF OneDoubt, Doubts, InDoubt, Resolved
    <3>6. j \in Known
      BY <2>1 DEF Known
    <3>7. QED
      BY <3>1, <3>3, <3>5, <3>6, OneJobSound
  <2>2. QED
    BY <1>1, <1>3, <2>1 DEF Reconcile
<1>4. ASSUME NEW j \in Jobs, TimePasses(j) \/ LeaseLapses(j) PROVE JobsSound
  <2>1. j \in Known /\ jobs[j] \in JobRow /\ jobs[j].status # "absent"
    BY <1>4 DEF TimePasses, LeaseLapses, Known, Active, Typed
  <2>2. PICK row : /\ jobs' = [jobs EXCEPT ![j] = row]
                   /\ row = [jobs[j] EXCEPT !.late = TRUE] \/ row = [jobs[j] EXCEPT !.lease = "lapsed"]
    BY <1>4 DEF TimePasses, LeaseLapses
  <2>3. row.status = jobs[j].status /\ Stays(row, j)
    BY <2>1, <2>2 DEF Stays, JobRow
  <2>4. QED
    BY <2>1, <2>2, <2>3, OneJobSound
<1>5. CASE (\E r \in Requests : Submit(r)) \/ Withdraw \/ NewPolicy \/ OthersChange \/ UNCHANGED vars
  BY <1>1, <1>5 DEF Submit, Withdraw, NewPolicy, OthersChange, vars
<1>6. QED
  BY <1>2, <1>3, <1>4, <1>5

(* Only the preparation of waiting requests makes a job.                      *)
LEMMA NextSound ==
    ASSUME Typed, Numbered, OneDoubt, [Next]_vars
    PROVE  JobsSound \/ \E w \in Workers : Prepare(w) /\ CreateJob
<1>1. UNCHANGED jobs => JobsSound
  BY DEF JobsSound
<1>2. Typed'
  BY NextTyped
<1>3. ASSUME NEW w \in Workers, WorkerStep(w) \/ Crash(w)
      PROVE  JobsSound \/ (Prepare(w) /\ CreateJob)
  <2>1. CASE Prepare(w)
    BY <1>1, <2>1 DEF Prepare, JoinActiveJob, ReuseLastJob
  <2>2. CASE \/ NothingToDo(w) \/ Begin(w) \/ AnswerKnown(w) \/ Reserve(w) \/ Dispatch(w)
             \/ DispatchCancelled(w) \/ CallProvider(w) \/ FallBack(w) \/ Enough(w)
             \/ FetchPage(w) \/ StepEnds(w) \/ Crash(w)
    BY <1>1, <2>2
       DEF NothingToDo, Begin, AnswerKnown, Reserve, Dispatch, DispatchCancelled, CallProvider,
           FallBack, Enough, FetchPage, StepEnds, Crash
  <2>3. QED
    BY <1>2, <1>3, <2>1, <2>2, ProgressSound, AnswerSound, WorkerSound DEF WorkerStep, WorkerAction
<1>4. QED
  BY <1>3, EnvironmentSound DEF Next

LEMMA RequestsKeepJob ==
    ASSUME Typed, [Next]_vars, ~\E w \in Workers : Prepare(w)
    PROVE  \A r \in Requests : requests'[r].job = requests[r].job
<1>1. \A r \in Requests : requests[r] \in RequestRow
  BY DEF Typed
<1>2. \A row \in RequestRow : \A status : [row EXCEPT !.status = status].job = row.job
  BY DEF RequestRow
<1>3. ASSUME NEW j, NEW states, NEW status, Tell(j, states, status)
      PROVE  \A r \in Requests : requests'[r].job = requests[r].job
  BY <1>1, <1>2, <1>3 DEF Tell
<1>4. ASSUME NEW j, CancelJob(j) \/ DeferJob(j) \/ (\E s : FinalizeJob(j, s)) \/ \E job : SaveJob(j, job)
      PROVE  \A r \in Requests : requests'[r].job = requests[r].job
  BY <1>3, <1>4 DEF CancelJob, DeferJob, FinalizeJob, SaveJob
<1>5. ASSUME NEW w \in Workers, WorkerStep(w) \/ Crash(w)
      PROVE  \A r \in Requests : requests'[r].job = requests[r].job
  <2>1. CASE \/ NothingToDo(w) \/ Begin(w) \/ AnswerKnown(w) \/ Reserve(w) \/ Dispatch(w)
             \/ DispatchCancelled(w) \/ CallProvider(w) \/ FallBack(w) \/ Enough(w)
             \/ FetchPage(w) \/ StepEnds(w) \/ Crash(w) \/ CompanyWithdrawn(w) \/ StopLate(w)
             \/ SearchesExhausted(w) \/ PagesDone(w)
             \/ \E answer \in Answers : AnswerSearch(w, answer)
    BY <2>1
       DEF NothingToDo, Begin, AnswerKnown, Reserve, Dispatch, DispatchCancelled, CallProvider,
           FallBack, Enough, FetchPage, StepEnds, Crash, CompanyWithdrawn, StopLate,
           SearchesExhausted, PagesDone, AnswerSearch
  <2>2. CASE \/ \E j \in Jobs : CancelAtLease(w, j)
             \/ DeferInDoubt(w) \/ CallRefused(w) \/ StopAfterCall(w)
    BY <1>4, <2>2 DEF CancelAtLease, DeferInDoubt, CallRefused, StopAfterCall
  <2>3. CASE \/ \E status \in {"completed", "failed"} : Finalize(w, status)
             \/ \E answer \in Answers : AnswerPage(w, answer)
             \/ PageWithoutCall(w) \/ \E outcome \in {"primary", "closed"} : SaveGroup(w, outcome)
    BY <1>4, <2>3 DEF Finalize, AnswerPage, PageWithoutCall, SaveGroup
  <2>4. CASE \E j \in Jobs : Lease(w, j)
    BY <1>3, <2>4 DEF Lease
  <2>5. CASE PreflightFails(w)
    <3>1. \A row \in RequestRow : \A credit :
              [row EXCEPT !.status = "failed", !.credit = credit].job = row.job
      BY DEF RequestRow
    <3>2. QED
      BY <1>1, <2>5, <3>1 DEF PreflightFails
  <2>6. QED
    BY <1>5, <2>1, <2>2, <2>3, <2>4, <2>5 DEF WorkerStep, WorkerAction
<1>6. ASSUME NEW q \in Requests, Cancel(q)
      PROVE  \A r \in Requests : requests'[r].job = requests[r].job
  <2>1. PICK status, credit : requests' = [requests EXCEPT ![q] =
            [requests[q] EXCEPT !.status = status, !.askedStop = TRUE, !.credit = credit]]
    BY <1>6 DEF Cancel
  <2>2. [requests[q] EXCEPT !.status = status, !.askedStop = TRUE, !.credit = credit].job
            = requests[q].job
    BY <1>1 DEF RequestRow
  <2>3. QED
    BY <2>1, <2>2 DEF Typed
<1>7. ASSUME NEW q \in Requests, Submit(q)
      PROVE  \A r \in Requests : requests'[r].job = requests[r].job
  BY <1>1, <1>7 DEF Submit, Typed, RequestRow
<1>8. ASSUME NEW j \in Jobs, NEW c \in Calls, Reconcile(j, c)
      PROVE  \A r \in Requests : requests'[r].job = requests[r].job
  BY <1>3, <1>8 DEF Reconcile
<1>9. CASE \/ Withdraw \/ NewPolicy \/ OthersChange \/ UNCHANGED vars
           \/ \E j \in Jobs : TimePasses(j) \/ LeaseLapses(j)
  BY <1>9 DEF TimePasses, LeaseLapses, Withdraw, NewPolicy, OthersChange, vars
<1>10. QED
  BY <1>5, <1>6, <1>7, <1>8, <1>9 DEF Next

LEMMA WorkersKeepJob ==
    ASSUME Typed, [Next]_vars, ~\E w \in Workers, j \in Jobs : Lease(w, j)
    PROVE  \A w \in Workers : workers'[w].job \in {0, workers[w].job}
<1>1. \A w \in Workers : workers[w] \in [pc : PCs, job : {0} \cup Jobs, call : {NoCall} \cup Calls]
  BY DEF Typed, WorkerRow
<1>2. ASSUME NEW w \in Workers,
             Rest(w) \/ (\E pc : Goto(w, pc)) \/ (\E c : Call(w, c)) \/ UNCHANGED workers
      PROVE  \A v \in Workers : workers'[v].job \in {0, workers[v].job}
  <2>1. PICK p : /\ workers' = [workers EXCEPT ![w] = p] \/ UNCHANGED workers
                 /\ p.job \in {0, workers[w].job}
    <3>1. CASE Rest(w)
      <4>1. PICK p : p = [pc |-> "idle", job |-> 0, call |-> NoCall]
        OBVIOUS
      <4>2. workers' = [workers EXCEPT ![w] = p] /\ p.job = 0
        BY <3>1, <4>1 DEF Rest
      <4>3. QED
        BY <4>2
    <3>2. ASSUME NEW pc, Goto(w, pc)
          PROVE  workers' = [workers EXCEPT ![w] = [workers[w] EXCEPT !.pc = pc]]
                 /\ [workers[w] EXCEPT !.pc = pc].job = workers[w].job
      BY <1>1, <3>2 DEF Goto, Typed
    <3>3. ASSUME NEW c, Call(w, c)
          PROVE  workers' = [workers EXCEPT ![w] = [workers[w] EXCEPT !.pc = "call", !.call = c]]
                 /\ [workers[w] EXCEPT !.pc = "call", !.call = c].job = workers[w].job
      BY <1>1, <3>3 DEF Call, Typed
    <3>4. QED
      BY <1>2, <3>1, <3>2, <3>3
  <2>2. QED
    BY <2>1 DEF Typed
<1>3. ASSUME NEW w \in Workers, WorkerStep(w) \/ Crash(w)
      PROVE  Rest(w) \/ (\E pc : Goto(w, pc)) \/ (\E c : Call(w, c))
  BY <1>3 DEF WorkerStep, WorkerAction, Crash, Prepare, NothingToDo, CancelAtLease, PreflightFails,
     CompanyWithdrawn, DeferInDoubt, StopLate, Begin, SearchesExhausted, Finalize, AnswerKnown,
     Reserve, Dispatch, DispatchCancelled, CallRefused, CallProvider, AnswerSearch, AnswerPage,
     StopAfterCall, FallBack, Enough, SaveGroup, FetchPage, PageWithoutCall, PagesDone, StepEnds
<1>4. CASE \/ \E r \in Requests : Submit(r) \/ Cancel(r)
           \/ \E j \in Jobs, c \in Calls : Reconcile(j, c)
           \/ \E j \in Jobs : TimePasses(j) \/ LeaseLapses(j)
           \/ Withdraw \/ NewPolicy \/ OthersChange \/ UNCHANGED vars
  BY <1>4 DEF Submit, Cancel, Reconcile, TimePasses, LeaseLapses, Withdraw, NewPolicy, OthersChange,
     vars, environment
<1>5. QED
  BY <1>2, <1>3, <1>4 DEF Next

LEMMA CallsOfKnown ==
    ASSUME Typed, Numbered, [Next]_vars
    PROVE  \A j \in Jobs \ Known : calls'[j] = calls[j]
<1>1. ASSUME NEW i \in Known, NEW row, calls' = [calls EXCEPT ![i] = row]
      PROVE  \A j \in Jobs \ Known : calls'[j] = calls[j]
  BY <1>1 DEF Typed
<1>2. ASSUME NEW i \in Known, NEW row, CancelJob(i)
      PROVE  \A j \in Jobs \ Known : calls'[j] = calls[j]
  BY <1>1, <1>2 DEF CancelJob
<1>3. ASSUME NEW w \in Workers, WorkerStep(w) \/ Crash(w)
      PROVE  \A j \in Jobs \ Known : calls'[j] = calls[j]
  <2>1. CASE \E j \in Jobs : CancelAtLease(w, j)
    <3>1. PICK j \in Jobs : Leasable(j) /\ CancelJob(j)
      BY <2>1 DEF CancelAtLease, FirstInLine
    <3>2. j \in Known
      BY <3>1 DEF FirstInLine, Leasable, Known
    <3>3. QED
      BY <1>2, <3>1, <3>2
  <2>2. CASE \/ DeferInDoubt(w) \/ CallRefused(w) \/ StopAfterCall(w) \/ Reserve(w) \/ Dispatch(w)
             \/ DispatchCancelled(w)
             \/ \E answer \in Answers : AnswerSearch(w, answer) \/ AnswerPage(w, answer)
    <3>1. JobOf(w) \in Known
      BY <2>2, KnownJob DEF DeferInDoubt, CallRefused, StopAfterCall, Reserve, Dispatch,
         DispatchCancelled, AnswerSearch, AnswerPage, At
    <3>2. \/ CancelJob(JobOf(w)) \/ UNCHANGED calls
          \/ \E row : calls' = [calls EXCEPT ![JobOf(w)] = row]
      BY <2>2 DEF DeferInDoubt, CallRefused, StopAfterCall, Reserve, Dispatch,
         DispatchCancelled, AnswerSearch, AnswerPage, Settle, SetCall
    <3>3. QED
      BY <1>1, <1>2, <3>1, <3>2
  <2>3. CASE ~\/ \E j \in Jobs : CancelAtLease(w, j)
              \/ DeferInDoubt(w) \/ CallRefused(w) \/ StopAfterCall(w) \/ Reserve(w) \/ Dispatch(w)
              \/ DispatchCancelled(w)
              \/ \E answer \in Answers : AnswerSearch(w, answer) \/ AnswerPage(w, answer)
    <3>1. UNCHANGED calls
      BY <1>3, <2>3 DEF WorkerStep, WorkerAction, Crash, Prepare, NothingToDo, Lease, PreflightFails,
         CompanyWithdrawn, StopLate, Begin, SearchesExhausted, Finalize, AnswerKnown,
         CallProvider, FallBack, Enough, SaveGroup, FetchPage, PageWithoutCall, PagesDone, StepEnds
    <3>2. QED
      BY <3>1
  <2>4. QED
    BY <2>1, <2>2, <2>3
<1>4. ASSUME NEW i \in Jobs, NEW c \in Calls, Reconcile(i, c)
      PROVE  \A j \in Jobs \ Known : calls'[j] = calls[j]
  <2>1. i \in Known
    BY <1>4 DEF Reconcile, Numbered, Doubts, InDoubt
  <2>2. QED
    BY <1>1, <1>4, <2>1 DEF Reconcile
<1>5. CASE \/ \E r \in Requests : Submit(r) \/ Cancel(r)
           \/ \E j \in Jobs : TimePasses(j) \/ LeaseLapses(j)
           \/ Withdraw \/ NewPolicy \/ OthersChange \/ UNCHANGED vars
  BY <1>5 DEF Submit, Cancel, TimePasses, LeaseLapses, Withdraw, NewPolicy, OthersChange,
     vars, environment
<1>6. QED
  BY <1>3, <1>4, <1>5 DEF Next

LEMMA CreatedJob ==
    ASSUME Typed, Numbered, CreateJob
    PROVE  \E n \in Nat : /\ Known = 1 .. n /\ Known' = 1 .. n + 1
                          /\ n + 1 \in Jobs \ Known /\ jobs' = [jobs EXCEPT ![n + 1] = NewJob]
                          /\ JoinRequests(n + 1, "research_queued")
<1>1. PICK n \in Nat : Known = 1 .. n
  BY DEF Numbered
<1>2. Cardinality(Known) = n
  <2>1. Cardinality(1 .. n) = IF 1 > n THEN 0 ELSE n - 1 + 1
    BY FS_Interval
  <2>2. QED
    BY <1>1, <2>1
<1>3. PICK m \in Nat : m = n + 1
  OBVIOUS
<1>4. m \in Jobs /\ jobs' = [jobs EXCEPT ![m] = NewJob] /\ JoinRequests(m, "research_queued")
  BY <1>2, <1>3 DEF CreateJob
<1>5. jobs'[m].status = "queued" /\ \A j \in Jobs \ {m} : jobs'[j] = jobs[j]
  BY <1>4 DEF Typed, NewJob
<1>6. Known' = Known \cup {m}
  BY <1>4, <1>5 DEF Known
<1>7. (1 .. n) \cup {m} = 1 .. m /\ m \notin 1 .. n
  BY <1>3
<1>8. QED
  BY <1>1, <1>3, <1>4, <1>6, <1>7

LEMMA JoinedJob ==
    ASSUME Typed, NEW j, NEW status, JoinRequests(j, status)
    PROVE  \A r \in Requests : requests'[r].job \in {j, requests[r].job}
<1>1. \A row \in RequestRow : \A new : [row EXCEPT !.job = j, !.status = new].job = j
  BY DEF RequestRow
<1>2. PICK kept : requests' = [r \in Requests |->
          IF r \notin Waiting THEN requests[r]
          ELSE [requests[r] EXCEPT !.job = j,
                                   !.status = IF r \in kept THEN requests[r].status ELSE status]]
  BY DEF JoinRequests
<1>3. ASSUME NEW r \in Requests, r \in Waiting
      PROVE  requests'[r].job = j
  <2>1. PICK new : new = IF r \in kept THEN requests[r].status ELSE status
    OBVIOUS
  <2>2. requests'[r] = [requests[r] EXCEPT !.job = j, !.status = new]
    BY <1>2, <1>3, <2>1
  <2>3. QED
    BY <1>1, <2>2 DEF Typed
<1>4. QED
  BY <1>2, <1>3

LEMMA NumberedKept ==
    ASSUME Typed, Numbered, OneDoubt, [Next]_vars
    PROVE  Numbered'
<1>1. PICK known : known = Known
  OBVIOUS
<1>2. (\E n \in Nat : Known' = 1 .. n) /\ known \subseteq Known'
  <2>1. CASE JobsSound
    <3>1. \A j \in Jobs : jobs'[j].status # "absent" <=> jobs[j].status # "absent"
      BY <2>1 DEF JobsSound, Known
    <3>2. Known' = Known
      BY <3>1 DEF Known
    <3>3. QED
      BY <1>1, <3>2 DEF Numbered
  <2>2. CASE CreateJob
    <3>1. PICK n \in Nat : Known = 1 .. n /\ Known' = 1 .. n + 1
      BY <2>2, CreatedJob
    <3>2. n + 1 \in Nat /\ 1 .. n \subseteq 1 .. n + 1
      OBVIOUS
    <3>3. QED
      BY <1>1, <3>1, <3>2
  <2>3. QED
    BY <2>1, <2>2, NextSound
<1>3. \A r \in Requests : requests'[r].job \in {0} \cup Known'
  <2>1. \A r \in Requests : requests[r].job \in {0} \cup Known'
    BY <1>1, <1>2 DEF Numbered
  <2>2. CASE ~\E w \in Workers : Prepare(w)
    BY <2>1, <2>2, RequestsKeepJob
  <2>3. ASSUME NEW w \in Workers, Prepare(w)
        PROVE  \A r \in Requests : requests'[r].job \in {0} \cup Known'
    <3>1. CASE UNCHANGED requests
      BY <2>1, <3>1
    <3>2. CASE requests' = [r \in Requests |->
                  IF r \in Waiting THEN [requests[r] EXCEPT !.status = "failed"] ELSE requests[r]]
      <4>1. \A r \in Requests : requests'[r].job = requests[r].job
        BY <3>2 DEF Typed, RequestRow
      <4>2. QED
        BY <2>1, <4>1
    <3>3. CASE JoinActiveJob
      <4>1. PICK j \in Known : JoinRequests(j, "research_queued")
        BY <3>3 DEF JoinActiveJob, ActiveJobs, Known, Active
      <4>2. QED
        BY <1>1, <1>2, <2>1, <4>1, JoinedJob
    <3>4. CASE ReuseLastJob
      <4>1. PICK j \in Known : \E status : JoinRequests(j, status)
        BY <3>4 DEF ReuseLastJob
      <4>2. PICK status : JoinRequests(j, status)
        BY <4>1
      <4>3. QED
        BY <1>1, <1>2, <2>1, <4>2, JoinedJob
    <3>5. CASE CreateJob
      <4>1. PICK n \in Nat : Known' = 1 .. n + 1 /\ JoinRequests(n + 1, "research_queued")
        BY <3>5, CreatedJob
      <4>2. n + 1 \in Known'
        BY <4>1
      <4>3. QED
        BY <2>1, <4>1, <4>2, JoinedJob
    <3>6. QED
      BY <2>3, <3>1, <3>2, <3>3, <3>4, <3>5 DEF Prepare
  <2>4. QED
    BY <2>2, <2>3
<1>4. \A w \in Workers : workers'[w].job \in {0} \cup Known'
  <2>1. \A w \in Workers : workers[w].job \in {0} \cup Known'
    BY <1>1, <1>2 DEF Numbered
  <2>2. CASE ~\E w \in Workers, j \in Jobs : Lease(w, j)
    <3>1. \A w \in Workers : workers'[w].job \in {0, workers[w].job}
      BY <2>2, WorkersKeepJob
    <3>2. QED
      BY <2>1, <3>1
  <2>3. ASSUME NEW v \in Workers, NEW j \in Jobs, Lease(v, j)
        PROVE  \A w \in Workers : workers'[w].job \in {0} \cup Known'
    <3>1. j \in Known
      BY <2>3 DEF Lease, FirstInLine, Leasable, Known
    <3>2. PICK p : p = [workers[v] EXCEPT !.pc = "leased", !.job = j]
      OBVIOUS
    <3>3. p.job = j
      BY <3>2 DEF Typed, WorkerRow
    <3>4. workers' = [workers EXCEPT ![v] = p]
      BY <2>3, <3>2 DEF Lease, Typed
    <3>5. QED
      BY <1>1, <1>2, <2>1, <3>1, <3>3, <3>4 DEF Typed
  <2>4. QED
    BY <2>2, <2>3
<1>5. \A j \in Jobs \ Known' : Doubts(j)' = {}
  <2>1. \A j \in Jobs \ Known : calls'[j] = calls[j] /\ Doubts(j) = {}
    BY CallsOfKnown DEF Numbered
  <2>2. QED
    BY <1>1, <1>2, <2>1 DEF Doubts
<1>6. QED
  BY <1>2, <1>3, <1>4, <1>5 DEF Numbered

LEMMA NumberedStarts == Init => Numbered
<1> SUFFICES ASSUME Init
             PROVE  Numbered
  OBVIOUS
<1>1. \A j \in Jobs : jobs[j].status = "absent"
  BY DEF Init, NewJob
<1>2. Known = {}
  BY <1>1 DEF Known
<1>3. Known = 1 .. 0
  BY <1>2
<1>4. \A j \in Jobs : Doubts(j) = {}
  BY DEF Init, Doubts, InDoubt
<1>5. QED
  BY <1>3, <1>4 DEF Init, Numbered

LEMMA StepStops ==
    ASSUME Typed, Numbered, OneDoubt, [Next]_vars, NEW j \in Jobs, NEW c \in Calls,
           calls[j][c] = "uncertain", calls'[j][c] = "uncertain"
    PROVE  /\ jobs'[j].stage = jobs[j].stage /\ jobs'[j].page = jobs[j].page
           /\ jobs'[j].status = "completed" => jobs[j].status = "completed"
<1>1. CASE JobsSound
  BY <1>1 DEF JobsSound, Stays, Resolved
<1>2. CASE CreateJob
  <2>1. PICK n \in Nat : n + 1 \in Jobs \ Known /\ jobs' = [jobs EXCEPT ![n + 1] = NewJob]
    BY <1>2, CreatedJob
  <2>2. j \in Known
    BY DEF Numbered, Doubts, InDoubt
  <2>3. jobs'[j] = jobs[j]
    BY <2>1, <2>2 DEF Typed
  <2>4. QED
    BY <2>3
<1>3. QED
  BY <1>1, <1>2, NextSound

(* With a single worker, while a call of a job stays in doubt the job does not *)
(* go on to another stage or page and is not reported as complete: only the     *)
(* reconciliation of that very call lets it finish (_reserve_job_call,          *)
(* budget.reconcile, _defer_budget).                                           *)
THEOREM DoubtHoldsTheJob == Alone => (Spec => DoubtStopsProgress)
<1> SUFFICES ASSUME Alone
             PROVE  Spec => DoubtStopsProgress
  OBVIOUS
<1>1. Typed /\ OneDoubt /\ Numbered /\ [Next]_vars => Numbered'
  BY NumberedKept
<1>2. Spec => []Numbered
  BY <1>1, NumberedStarts, OneAlways, AlwaysTyped, PTL DEF Spec
<1>3. Typed /\ OneDoubt /\ Numbered /\ [Next]_vars =>
        [\A j \in Jobs :
            (\E c \in Calls : calls[j][c] = "uncertain" /\ calls'[j][c] = "uncertain") =>
                /\ jobs'[j].stage = jobs[j].stage /\ jobs'[j].page = jobs[j].page
                /\ jobs'[j].status = "completed" => jobs[j].status = "completed"]_vars
  BY StepStops
<1>4. QED
  BY <1>2, <1>3, OneAlways, AlwaysTyped, PTL DEF Spec, DoubtStopsProgress

=============================================================================
