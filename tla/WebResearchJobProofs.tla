------------------------- MODULE WebResearchJobProofs -------------------------
(* What holds of the research jobs of a company for any number of workers,  *)
(* requests, jobs, search groups, pages and crashes.                        *)
EXTENDS WebResearchJob, TLAPS

-----------------------------------------------------------------------------
(* Type correctness.  A worker on its way through a call is at a call of    *)
(* the job: without that the page an answer belongs to may be no page.      *)

AtCall == {"call", "reserved", "refused", "sent", "answered", "made", "checked"}
JobStatuses == {"absent"} \cup Active \cup Finished
RequestStatuses == {"absent", "completed", "failed", "cancelled"} \cup Cancellable

WorkerRow ==
    {p \in [pc : PCs, job : {0} \cup Jobs, call : {NoCall} \cup Calls] :
        /\ p.job = 0 <=> p.pc \in {"idle", "prepared"}
        /\ p.pc \in AtCall => p.call \in Calls}

Typed ==
    /\ jobs \in [Jobs -> JobRow]
    /\ requests \in [Requests -> RequestRow]
    /\ calls \in [Jobs -> [Calls -> CallStates]]
    /\ workers \in [Workers -> WorkerRow]
    /\ public \in BOOLEAN /\ ahead \in BOOLEAN /\ version \in 0 .. VersionLimit
    /\ asked \subseteq Jobs /\ crashes \in 0 .. CrashLimit

(* Only a cancellation is overlooked, of a request that was active.         *)
Overlooks ==
    /\ overlooked \in [Requests -> {"no"} \cup ActiveRequest]
    /\ \A r \in Requests : overlooked[r] # "no" => requests[r].status = "cancelled"

LEMMA TypedImpliesTypeOK == Typed /\ Overlooks => TypeOK
  BY DEF Typed, Overlooks, TypeOK, WorkerRow

-----------------------------------------------------------------------------
(* The types of the rows that the actions write.                            *)

LEMMA NewJobType ==
    ASSUME version \in 0 .. VersionLimit
    PROVE  NewJob \in JobRow /\ [NewJob EXCEPT !.status = "absent"] \in JobRow
<1>1. 1 \in Groups /\ 0 \in 0 .. PageCount
  BY JobAssumption DEF Groups
<1>2. [g \in Groups |-> "pending"] \in
        [Groups -> {"pending", "deferred", "skipped", "primary", "closed"}]
  OBVIOUS
<1>3. QED
  BY <1>1, <1>2 DEF NewJob, JobRow, Active, Finished

LEMMA GivenBackType ==
    ASSUME NEW job \in JobRow, NEW status \in JobStatuses
    PROVE  GivenBack(job, status) \in JobRow
  BY DEF GivenBack, JobRow, JobStatuses

LEMMA DroppingType ==
    ASSUME NEW job \in JobRow, NEW outcome \in {"deferred", "skipped"}
    PROVE  Dropping(job, outcome) \in JobRow
<1>1. [g \in Groups |-> IF job.groups[g] = "pending" THEN outcome ELSE job.groups[g]] \in
        [Groups -> {"pending", "deferred", "skipped", "primary", "closed"}]
  BY DEF JobRow
<1>2. QED
  BY <1>1 DEF Dropping, JobRow

LEMMA StoppedType ==
    ASSUME NEW job \in JobRow
    PROVE  Stopped(job) \in JobRow
  BY DEF Stopped, JobRow

(* The fields that single actions write.                                    *)
LEMMA FieldsType ==
    ASSUME NEW job \in JobRow
    PROVE  /\ [job EXCEPT !.status = "running", !.lease = "held"] \in JobRow
           /\ [job EXCEPT !.status = "failed"] \in JobRow
           /\ [job EXCEPT !.stage = "finalize"] \in JobRow
           /\ [job EXCEPT !.stage = "fetch"] \in JobRow
           /\ \A counted \in BOOLEAN :
                 /\ [job EXCEPT !.counted = counted] \in JobRow
                 /\ [job EXCEPT !.stage = "finalize", !.counted = counted] \in JobRow
  BY DEF JobRow, Active, Finished

LEMMA PageType ==
    ASSUME NEW job \in JobRow, NEW page \in Pages
    PROVE  /\ [job EXCEPT !.page = page] \in JobRow
           /\ \A counted \in BOOLEAN :
                 [job EXCEPT !.page = page, !.stage = "fetch", !.counted = counted] \in JobRow
<1>1. page \in 0 .. PageCount
  BY JobAssumption DEF Pages
<1>2. QED
  BY <1>1 DEF JobRow

LEMMA GroupType ==
    ASSUME NEW job \in JobRow, NEW g \in Groups
    PROVE  /\ [job EXCEPT !.group = g] \in JobRow
           /\ [job EXCEPT !.stage = "fallback", !.group = g] \in JobRow
           /\ \A outcome \in {"primary", "closed"} :
                 [job EXCEPT !.groups = [job.groups EXCEPT ![g] = outcome]] \in JobRow
<1>1. \A outcome \in {"primary", "closed"} :
        [job.groups EXCEPT ![g] = outcome] \in
          [Groups -> {"pending", "deferred", "skipped", "primary", "closed"}]
  BY DEF JobRow
<1>2. QED
  BY <1>1 DEF JobRow

LEMMA LeasedType ==
    ASSUME NEW row \in WorkerRow, NEW j \in Jobs
    PROVE  [row EXCEPT !.pc = "leased", !.job = j] \in WorkerRow
<1>1. j # 0
  BY JobAssumption DEF Jobs
<1>2. QED
  BY <1>1 DEF WorkerRow, PCs, AtCall

LEMMA RecoveredType ==
    ASSUME NEW cs \in [Calls -> CallStates], NEW c \in BOOLEAN
    PROVE  Recovered(cs, c) \in [Calls -> CallStates]
  BY DEF Recovered, CallStates

LEMMA TellType ==
    ASSUME Typed, NEW j, NEW states, NEW status \in RequestStatuses, Tell(j, states, status)
    PROVE  requests' \in [Requests -> RequestRow]
<1>1. \A row \in RequestRow : [row EXCEPT !.status = status] \in RequestRow
  BY DEF RequestRow, RequestStatuses
<1>2. QED
  BY <1>1 DEF Typed, Tell

LEMMA IdleType ==
    [pc |-> "idle", job |-> 0, call |-> NoCall] \in WorkerRow
  BY DEF WorkerRow, PCs, AtCall

LEMMA RestType ==
    ASSUME Typed, NEW w \in Workers, Rest(w)
    PROVE  workers' \in [Workers -> WorkerRow]
  BY IdleType DEF Typed, Rest

(* A worker with a job goes on to another place of the program.             *)
LEMMA GotoType ==
    ASSUME Typed, NEW w \in Workers, NEW pc \in PCs \ {"idle", "prepared"}, Goto(w, pc),
           workers[w].pc \notin {"idle", "prepared"},
           pc \in AtCall => workers[w].call \in Calls
    PROVE  workers' \in [Workers -> WorkerRow]
<1>1. [workers[w] EXCEPT !.pc = pc] \in WorkerRow
  BY DEF Typed, WorkerRow
<1>2. QED
  BY <1>1 DEF Typed, Goto

LEMMA CallType ==
    ASSUME Typed, NEW w \in Workers, NEW c \in Calls, Call(w, c),
           workers[w].pc \notin {"idle", "prepared"}
    PROVE  workers' \in [Workers -> WorkerRow]
<1>1. [workers[w] EXCEPT !.pc = "call", !.call = c] \in WorkerRow
  BY DEF Typed, WorkerRow, PCs
<1>2. QED
  BY <1>1 DEF Typed, Call

LEMMA WorkerJob ==
    ASSUME Typed, NEW w \in Workers, workers[w].pc \notin {"idle", "prepared"}
    PROVE  /\ JobOf(w) \in Jobs /\ jobs[JobOf(w)] \in JobRow
           /\ workers[w].pc \in AtCall => CallOf(w) \in Calls
  BY DEF Typed, WorkerRow, JobOf, CallOf

LEMMA CancelJobType ==
    ASSUME Typed, NEW j \in Jobs, CancelJob(j)
    PROVE  /\ jobs' \in [Jobs -> JobRow] /\ requests' \in [Requests -> RequestRow]
           /\ calls' \in [Jobs -> [Calls -> CallStates]]
<1>1. requests' \in [Requests -> RequestRow]
  BY TellType DEF CancelJob, RequestStatuses
<1>2. Recovered(calls[j], TRUE) \in [Calls -> CallStates]
  BY RecoveredType DEF Typed
<1>3. GivenBack(jobs[j], "cancelled") \in JobRow
  BY GivenBackType DEF Typed, JobStatuses, Finished
<1>4. QED
  BY <1>1, <1>2, <1>3 DEF CancelJob, Typed

LEMMA DeferJobType ==
    ASSUME Typed, NEW j \in Jobs, DeferJob(j)
    PROVE  jobs' \in [Jobs -> JobRow] /\ requests' \in [Requests -> RequestRow]
<1>1. requests' \in [Requests -> RequestRow]
  BY TellType DEF DeferJob, RequestStatuses, Cancellable, ActiveRequest
<1>2. Dropping(jobs[j], "deferred") \in JobRow
  BY DroppingType DEF Typed
<1>3. GivenBack(Dropping(jobs[j], "deferred"), "budget_deferred") \in JobRow
  BY <1>2, GivenBackType DEF JobStatuses, Active
<1>4. QED
  BY <1>1, <1>3 DEF DeferJob, Typed

LEMMA FinalizeJobType ==
    ASSUME Typed, NEW j \in Jobs, NEW status \in {"completed", "failed"}, FinalizeJob(j, status)
    PROVE  jobs' \in [Jobs -> JobRow] /\ requests' \in [Requests -> RequestRow]
<1>1. requests' \in [Requests -> RequestRow]
  BY TellType DEF FinalizeJob, RequestStatuses
<1>2. GivenBack(jobs[j], status) \in JobRow
  BY GivenBackType DEF Typed, JobStatuses, Finished
<1>3. QED
  BY <1>1, <1>2 DEF FinalizeJob, Typed

LEMMA SaveJobType ==
    ASSUME Typed, NEW j \in Jobs, NEW job \in JobRow, SaveJob(j, job)
    PROVE  jobs' \in [Jobs -> JobRow] /\ requests' \in [Requests -> RequestRow]
<1>1. requests' \in [Requests -> RequestRow]
  BY TellType DEF SaveJob, RequestStatuses, Cancellable, ActiveRequest
<1>2. GivenBack(job, "partial") \in JobRow
  BY GivenBackType DEF JobStatuses, Active
<1>3. QED
  BY <1>1, <1>2 DEF SaveJob, Typed

-----------------------------------------------------------------------------
LEMMA InitTyped == Init => Typed
<1> SUFFICES ASSUME Init
             PROVE  Typed
  OBVIOUS
<1>1. jobs \in [Jobs -> JobRow] /\ version \in 0 .. VersionLimit
  <2>1. version \in 0 .. VersionLimit
    BY JobAssumption DEF Init
  <2>2. QED
    BY <2>1, NewJobType DEF Init
<1>2. requests \in [Requests -> RequestRow]
  BY DEF Init, RequestRow, Cancellable, ActiveRequest
<1>3. calls \in [Jobs -> [Calls -> CallStates]]
  BY DEF Init, CallStates
<1>4. workers \in [Workers -> WorkerRow]
  BY IdleType DEF Init
<1>5. 0 \in 0 .. CrashLimit
  BY JobAssumption
<1>6. QED
  BY <1>1, <1>2, <1>3, <1>4, <1>5 DEF Init, Typed

LEMMA CallParts ==
    /\ \A g \in Groups : <<g, "primary">> \in Calls /\ <<g, "fallback">> \in Calls
    /\ \A g \in Pages : <<g, "page">> \in Calls
    /\ \A c \in Calls : IF Search(c) THEN c[1] \in Groups ELSE c[1] \in Pages
  BY DEF Calls, Search

(* Users, the administrator and time.                                       *)
LEMMA EnvironmentTyped ==
    ASSUME Typed,
           \/ \E r \in Requests : Submit(r) \/ Cancel(r)
           \/ \E j \in Jobs, c \in Calls : Reconcile(j, c)
           \/ \E j \in Jobs : TimePasses(j) \/ LeaseLapses(j)
           \/ Withdraw \/ NewPolicy \/ OthersChange
    PROVE  Typed'
<1>1. ASSUME NEW r \in Requests, Submit(r)
      PROVE  Typed'
  <2>1. [requests[r] EXCEPT !.status = "research_queued"] \in RequestRow
    BY DEF Typed, RequestRow, Cancellable, ActiveRequest
  <2>2. QED
    BY <1>1, <2>1 DEF Submit, Typed, environment
<1>2. ASSUME NEW r \in Requests, Cancel(r)
      PROVE  Typed'
  <2> DEFINE j == requests[r].job
             alone == j # 0 /\ LinkedActive(j) \ {r} = {}
  <2>1. requests' \in [Requests -> RequestRow]
    <3>1. ASSUME NEW status \in {"cancel_requested", "cancelled"},
                 NEW credit \in {"voided", requests[r].credit}
          PROVE  [requests[r] EXCEPT !.status = status, !.askedStop = TRUE, !.credit = credit]
                   \in RequestRow
      BY DEF Typed, RequestRow, Cancellable
    <3>2. QED
      BY <1>2, <3>1 DEF Cancel, Typed
  <2>2. ASSUME j # 0
        PROVE  /\ j \in Jobs /\ Stopped(jobs[j]) \in JobRow
               /\ GivenBack(Stopped(jobs[j]), "cancelled") \in JobRow
    <3>1. j \in Jobs /\ jobs[j] \in JobRow
      BY <2>2 DEF Typed, RequestRow
    <3>2. QED
      BY <3>1, StoppedType, GivenBackType DEF JobStatuses, Finished
  <2>3. jobs' \in [Jobs -> JobRow]
    BY <1>2, <2>2 DEF Cancel, Typed
  <2>4. QED
    BY <1>2, <2>1, <2>3 DEF Cancel, Typed, environment
<1>3. ASSUME NEW j \in Jobs, NEW c \in Calls, Reconcile(j, c)
      PROVE  Typed'
  <2>1. calls' \in [Jobs -> [Calls -> CallStates]]
    BY <1>3 DEF Reconcile, Typed, CallStates
  <2>2. CASE jobs[j].status = "budget_deferred"
    <3>1. requests' \in [Requests -> RequestRow]
      BY <1>3, <2>2, TellType DEF Reconcile, RequestStatuses, Cancellable, ActiveRequest
    <3>2. ASSUME NEW counted \in BOOLEAN
          PROVE  GivenBack([jobs[j] EXCEPT !.stage = "finalize", !.counted = counted], "partial")
                   \in JobRow
      <4>1. [jobs[j] EXCEPT !.stage = "finalize", !.counted = counted] \in JobRow
        BY FieldsType DEF Typed
      <4>2. QED
        BY <4>1, GivenBackType DEF JobStatuses, Active
    <3>3. jobs[j].counted \in BOOLEAN
      BY DEF Typed, JobRow
    <3>4. jobs' \in [Jobs -> JobRow]
      BY <1>3, <2>2, <3>2, <3>3 DEF Reconcile, Typed
    <3>5. QED
      BY <1>3, <2>1, <3>1, <3>4 DEF Reconcile, Typed, environment
  <2>3. CASE jobs[j].status # "budget_deferred"
    BY <1>3, <2>1, <2>3 DEF Reconcile, Typed, environment
  <2>4. QED
    BY <2>2, <2>3
<1>4. ASSUME NEW j \in Jobs, TimePasses(j) \/ LeaseLapses(j)
      PROVE  Typed'
  <2>1. /\ [jobs[j] EXCEPT !.late = TRUE] \in JobRow
        /\ [jobs[j] EXCEPT !.lease = "lapsed"] \in JobRow
    <3>1. jobs[j] \in JobRow
      BY DEF Typed
    <3>2. QED
      BY <3>1 DEF JobRow
  <2>2. QED
    BY <1>4, <2>1 DEF TimePasses, LeaseLapses, Typed, environment
<1>5. CASE Withdraw \/ NewPolicy \/ OthersChange
  <2>1. NewPolicy => version' \in 0 .. VersionLimit
    BY JobAssumption DEF NewPolicy, Typed
  <2>2. QED
    BY <1>5, <2>1 DEF Withdraw, NewPolicy, OthersChange, Typed
<1>6. QED
  BY <1>1, <1>2, <1>3, <1>4, <1>5

(* The worker before it has a job.                                          *)
LEMMA PrepareTyped ==
    ASSUME Typed, NEW w \in Workers,
           \/ Prepare(w) \/ NothingToDo(w)
           \/ \E j \in Jobs : CancelAtLease(w, j) \/ Lease(w, j)
    PROVE  Typed'
<1>1. CASE Prepare(w)
  <2>1. [workers[w] EXCEPT !.pc = "prepared"] \in WorkerRow
    BY <1>1 DEF Prepare, Typed, WorkerRow, PCs, AtCall
  <2>2. workers' \in [Workers -> WorkerRow]
    BY <1>1, <2>1 DEF Prepare, Goto, Typed
  <2>3. ASSUME NEW j \in Jobs, NEW status \in {"research_queued", "completed", "failed"},
               JoinRequests(j, status)
        PROVE  requests' \in [Requests -> RequestRow]
    <3>1. PICK kept : requests' = [r \in Requests |->
              IF r \notin Waiting THEN requests[r]
              ELSE [requests[r] EXCEPT !.job = j, !.status = IF r \in kept THEN @ ELSE status]]
      BY <2>3 DEF JoinRequests
    <3>2. \A row \in RequestRow : \A new \in {row.status, status} :
              [row EXCEPT !.job = j, !.status = new] \in RequestRow
      BY DEF RequestRow, Cancellable, ActiveRequest
    <3>3. ASSUME NEW r \in Requests, r \in Waiting
          PROVE  [requests[r] EXCEPT !.job = j,
                     !.status = IF r \in kept THEN requests[r].status ELSE status] \in RequestRow
      BY <3>2 DEF Typed
    <3>4. QED
      BY <3>1, <3>3 DEF Typed
  <2>4. CASE Waiting = {} /\ UNCHANGED <<jobs, requests>>
    BY <1>1, <2>2, <2>4 DEF Prepare, Typed, environment
  <2>5. CASE /\ UNCHANGED jobs
             /\ requests' = [r \in Requests |->
                   IF r \in Waiting THEN [requests[r] EXCEPT !.status = "failed"]
                   ELSE requests[r]]
    <3>1. \A row \in RequestRow : [row EXCEPT !.status = "failed"] \in RequestRow
      BY DEF RequestRow
    <3>2. requests' \in [Requests -> RequestRow]
      BY <2>5, <3>1 DEF Typed
    <3>3. QED
      BY <1>1, <2>2, <2>5, <3>2 DEF Prepare, Typed, environment
  <2>6. CASE JoinActiveJob
    <3>1. requests' \in [Requests -> RequestRow] /\ UNCHANGED jobs
      BY <2>3, <2>6 DEF JoinActiveJob, ActiveJobs
    <3>2. QED
      BY <1>1, <2>2, <3>1 DEF Prepare, Typed, environment
  <2>7. CASE ReuseLastJob
    <3>1. requests' \in [Requests -> RequestRow] /\ UNCHANGED jobs
      BY <2>3, <2>7 DEF ReuseLastJob, Known
    <3>2. QED
      BY <1>1, <2>2, <3>1 DEF Prepare, Typed, environment
  <2>8. CASE CreateJob
    <3>1. requests' \in [Requests -> RequestRow]
      BY <2>3, <2>8 DEF CreateJob
    <3>2. jobs' \in [Jobs -> JobRow]
      BY <2>8, NewJobType DEF CreateJob, Typed
    <3>3. QED
      BY <1>1, <2>2, <3>1, <3>2 DEF Prepare, Typed, environment
  <2>9. QED
    BY <1>1, <2>4, <2>5, <2>6, <2>7, <2>8 DEF Prepare
<1>2. CASE NothingToDo(w)
  BY <1>2, RestType DEF NothingToDo, Typed, environment
<1>3. ASSUME NEW j \in Jobs, CancelAtLease(w, j)
      PROVE  Typed'
  BY <1>3, RestType, CancelJobType DEF CancelAtLease, Typed, environment
<1>4. ASSUME NEW j \in Jobs, Lease(w, j)
      PROVE  Typed'
  <2>1. requests' \in [Requests -> RequestRow]
    BY <1>4, TellType DEF Lease, RequestStatuses, Cancellable, ActiveRequest
  <2>2. [jobs[j] EXCEPT !.status = "running", !.lease = "held"] \in JobRow
    BY FieldsType DEF Typed
  <2>3. [workers[w] EXCEPT !.pc = "leased", !.job = j] \in WorkerRow
    BY LeasedType DEF Typed
  <2>4. QED
    BY <1>4, <2>1, <2>2, <2>3 DEF Lease, Typed, environment
<1>5. QED
  BY <1>1, <1>2, <1>3, <1>4

(* The step of the leased job.                                              *)
LEMMA StepTyped ==
    ASSUME Typed, NEW w \in Workers,
           \/ PreflightFails(w) \/ CompanyWithdrawn(w) \/ DeferInDoubt(w)
           \/ StopLate(w) \/ Begin(w) \/ SearchesExhausted(w)
           \/ \E status \in {"completed", "failed"} : Finalize(w, status)
    PROVE  Typed'
<1>1. /\ workers[w].pc \in {"leased", "finalizing"}
      /\ JobOf(w) \in Jobs /\ jobs[JobOf(w)] \in JobRow
  BY WorkerJob
     DEF At, Ready, PreflightFails, CompanyWithdrawn, DeferInDoubt, StopLate, Begin,
         SearchesExhausted, Finalize
<1>2. CASE PreflightFails(w)
  <2>1. ASSUME NEW row \in RequestRow
        PROVE  [row EXCEPT !.status = "failed",
                           !.credit = IF jobs[JobOf(w)].counted THEN row.credit ELSE "voided"]
                 \in RequestRow
    BY DEF RequestRow
  <2>2. requests' \in [Requests -> RequestRow]
    BY <1>2, <2>1 DEF PreflightFails, Typed
  <2>3. GivenBack(jobs[JobOf(w)], "failed") \in JobRow
    BY <1>1, GivenBackType DEF JobStatuses, Finished
  <2>4. QED
    BY <1>1, <1>2, <2>2, <2>3, RestType DEF PreflightFails, Typed, environment
<1>3. CASE CompanyWithdrawn(w)
  <2>1. [jobs[JobOf(w)] EXCEPT !.status = "failed"] \in JobRow
    BY <1>1, FieldsType
  <2>2. QED
    BY <1>1, <1>3, <2>1, RestType DEF CompanyWithdrawn, Typed, environment
<1>4. CASE DeferInDoubt(w)
  <2>1. Recovered(calls[JobOf(w)], FALSE) \in [Calls -> CallStates]
    BY <1>1, RecoveredType DEF Typed
  <2>2. QED
    BY <1>1, <1>4, <2>1, RestType, DeferJobType DEF DeferInDoubt, Typed, environment
<1>5. CASE StopLate(w)
  <2>1. [jobs[JobOf(w)] EXCEPT !.stage = "finalize"] \in JobRow
    BY <1>1, FieldsType
  <2>2. workers' \in [Workers -> WorkerRow]
    BY <1>1, <1>5, GotoType DEF StopLate, PCs, AtCall
  <2>3. QED
    BY <1>1, <1>5, <2>1, <2>2 DEF StopLate, Typed, environment
<1>6. CASE Begin(w)
  <2>1. jobs[JobOf(w)].group \in Groups
    BY <1>1 DEF JobRow
  <2>2. workers' \in [Workers -> WorkerRow]
    BY <1>1, <1>6, <2>1, CallParts, CallType, GotoType DEF Begin, PCs, AtCall
  <2>3. QED
    BY <1>6, <2>2 DEF Begin, Typed, environment
<1>7. CASE SearchesExhausted(w)
  <2>1. Dropping(jobs[JobOf(w)], "skipped") \in JobRow
    BY <1>1, DroppingType
  <2>2. [Dropping(jobs[JobOf(w)], "skipped") EXCEPT !.stage = "fetch"] \in JobRow
    BY <2>1, FieldsType
  <2>3. GivenBack([Dropping(jobs[JobOf(w)], "skipped") EXCEPT !.stage = "fetch"], "partial")
          \in JobRow
    BY <2>2, GivenBackType DEF JobStatuses, Active
  <2>4. QED
    BY <1>1, <1>7, <2>3, RestType DEF SearchesExhausted, Typed, environment
<1>8. ASSUME NEW status \in {"completed", "failed"}, Finalize(w, status)
      PROVE  Typed'
  BY <1>1, <1>8, RestType, FinalizeJobType DEF Finalize, Typed, environment
<1>9. QED
  BY <1>2, <1>3, <1>4, <1>5, <1>6, <1>7, <1>8

(* One call of the step.                                                    *)
LEMMA CallTyped ==
    ASSUME Typed, NEW w \in Workers,
           \/ AnswerKnown(w) \/ Reserve(w) \/ Dispatch(w) \/ DispatchCancelled(w)
           \/ CallRefused(w) \/ CallProvider(w)
           \/ \E answer \in Answers : AnswerSearch(w, answer) \/ AnswerPage(w, answer)
    PROVE  Typed'
<1>1. /\ workers[w].pc \in AtCall
      /\ JobOf(w) \in Jobs /\ jobs[JobOf(w)] \in JobRow
      /\ CallOf(w) \in Calls /\ workers[w].call = CallOf(w)
  <2>1. workers[w].pc \in AtCall
    BY DEF At, AtCall, AnswerKnown, Reserve, Dispatch, DispatchCancelled, CallRefused,
           CallProvider, AnswerSearch, AnswerPage
  <2>2. QED
    BY <2>1, WorkerJob DEF AtCall, CallOf
<1>2. ASSUME NEW pc \in AtCall, Goto(w, pc)
      PROVE  workers' \in [Workers -> WorkerRow]
  BY <1>1, <1>2, GotoType DEF AtCall, PCs
<1>3. ASSUME NEW state \in CallStates, SetCall(w, state)
      PROVE  calls' \in [Jobs -> [Calls -> CallStates]]
  BY <1>3 DEF SetCall, Typed
<1>4. CASE AnswerKnown(w)
  BY <1>2, <1>4 DEF AnswerKnown, Typed, environment, AtCall
<1>5. CASE Reserve(w)
  BY <1>2, <1>3, <1>5 DEF Reserve, Typed, environment, AtCall, CallStates
<1>6. CASE Dispatch(w)
  BY <1>2, <1>3, <1>6 DEF Dispatch, Typed, environment, AtCall, CallStates
<1>7. CASE DispatchCancelled(w)
  BY <1>2, <1>3, <1>7 DEF DispatchCancelled, Typed, environment, AtCall, CallStates
<1>8. CASE CallRefused(w)
  BY <1>1, <1>8, RestType, CancelJobType, DeferJobType DEF CallRefused, Typed, environment
<1>9. CASE CallProvider(w)
  BY <1>1, <1>2, <1>9 DEF CallProvider, Typed, AtCall
<1>10. ASSUME NEW answer \in Answers, AnswerSearch(w, answer) \/ AnswerPage(w, answer)
       PROVE  Typed'
  <2>1. calls' \in [Jobs -> [Calls -> CallStates]]
    BY <1>3, <1>10 DEF AnswerSearch, AnswerPage, Settle, CallStates, Typed
  <2>2. Counted(JobOf(w), answer) \subseteq BOOLEAN
    BY <1>1 DEF Counted, JobRow
  <2>3. CASE AnswerSearch(w, answer)
    <3>1. \A counted \in BOOLEAN : [jobs[JobOf(w)] EXCEPT !.counted = counted] \in JobRow
      BY <1>1, FieldsType
    <3>2. jobs' \in [Jobs -> JobRow]
      BY <1>1, <2>2, <2>3, <3>1 DEF AnswerSearch, Typed
    <3>3. QED
      BY <1>2, <2>1, <2>3, <3>2 DEF AnswerSearch, Typed, environment, AtCall
  <2>4. CASE AnswerPage(w, answer)
    <3>1. CallOf(w)[1] \in Pages
      BY <1>1, <2>4, CallParts DEF AnswerPage
    <3>2. \A counted \in BOOLEAN :
             [jobs[JobOf(w)] EXCEPT !.page = CallOf(w)[1], !.stage = "fetch", !.counted = counted]
               \in JobRow
      BY <1>1, <3>1, PageType
    <3>3. jobs' \in [Jobs -> JobRow] /\ requests' \in [Requests -> RequestRow]
      BY <1>1, <2>2, <2>4, <3>2, SaveJobType DEF AnswerPage
    <3>4. workers' \in [Workers -> WorkerRow]
      BY <1>1, <2>4, GotoType DEF AnswerPage, PCs, AtCall
    <3>5. QED
      BY <2>1, <2>4, <3>3, <3>4 DEF AnswerPage, Typed, environment
  <2>5. QED
    BY <1>10, <2>3, <2>4
<1>11. QED
  BY <1>4, <1>5, <1>6, <1>7, <1>8, <1>9, <1>10

(* What the step saves after its calls, and the pages.                      *)
LEMMA SavedTyped ==
    ASSUME Typed, NEW w \in Workers,
           \/ StopAfterCall(w) \/ FallBack(w) \/ Enough(w)
           \/ \E outcome \in {"primary", "closed"} : SaveGroup(w, outcome)
           \/ FetchPage(w) \/ PageWithoutCall(w) \/ PagesDone(w) \/ StepEnds(w)
    PROVE  Typed'
<1>1. /\ workers[w].pc \in {"made", "saved", "checked", "fetch"}
      /\ JobOf(w) \in Jobs /\ jobs[JobOf(w)] \in JobRow
      /\ workers[w].pc \in {"made", "checked"} =>
            CallOf(w) \in Calls /\ workers[w].call = CallOf(w)
  BY WorkerJob
     DEF At, AtCall, CallOf, StopAfterCall, FallBack, Enough, SaveGroup, FetchPage,
         PageWithoutCall, PagesDone, StepEnds
<1>2. CASE StopAfterCall(w)
  BY <1>1, <1>2, RestType, CancelJobType DEF StopAfterCall, Typed, environment
<1>3. CASE FallBack(w)
  <2>1. <<CallOf(w)[1], "fallback">> \in Calls
    BY <1>1, <1>3, CallParts DEF FallBack, Search, At
  <2>2. workers' \in [Workers -> WorkerRow]
    BY <1>1, <1>3, <2>1, CallType DEF FallBack
  <2>3. QED
    BY <1>3, <2>2 DEF FallBack, Typed, environment
<1>4. CASE Enough(w)
  <2>1. workers' \in [Workers -> WorkerRow]
    BY <1>1, <1>4, GotoType DEF Enough, At, PCs
  <2>2. QED
    BY <1>4, <2>1 DEF Enough, Typed, environment
<1>5. ASSUME NEW outcome \in {"primary", "closed"}, SaveGroup(w, outcome)
      PROVE  Typed'
  <2> DEFINE job == [jobs[JobOf(w)] EXCEPT
                       !.groups = [jobs[JobOf(w)].groups EXCEPT ![CallOf(w)[1]] = outcome]]
  <2>1. job \in JobRow
    <3>1. [jobs[JobOf(w)].groups EXCEPT ![CallOf(w)[1]] = outcome] \in
            [Groups -> {"pending", "deferred", "skipped", "primary", "closed"}]
      BY <1>1 DEF JobRow
    <3>2. QED
      BY <1>1, <3>1 DEF JobRow
  <2>2. \E saved \in JobRow : SaveJob(JobOf(w), saved)
    <3>1. CASE SaveJob(JobOf(w), [job EXCEPT !.stage = "fetch"])
      BY <2>1, <3>1, FieldsType
    <3>2. ASSUME NEW g \in Groups, SaveJob(JobOf(w), [job EXCEPT !.group = g])
          PROVE  \E saved \in JobRow : SaveJob(JobOf(w), saved)
      BY <2>1, <3>2, GroupType
    <3>3. QED
      BY <1>5, <3>1, <3>2 DEF SaveGroup, Pending
  <2>3. jobs' \in [Jobs -> JobRow] /\ requests' \in [Requests -> RequestRow]
    BY <1>1, <2>2, SaveJobType
  <2>4. QED
    BY <1>5, <2>3, RestType DEF SaveGroup, Typed, environment
<1>6. CASE FetchPage(w)
  <2>1. workers' \in [Workers -> WorkerRow]
    BY <1>1, <1>6, CallParts, CallType DEF FetchPage
  <2>2. QED
    BY <1>6, <2>1 DEF FetchPage, Typed, environment
<1>7. CASE PageWithoutCall(w)
  <2>1. [jobs[JobOf(w)] EXCEPT !.page = jobs[JobOf(w)].page + 1] \in JobRow
    BY <1>1, <1>7, PageType DEF PageWithoutCall
  <2>2. jobs' \in [Jobs -> JobRow] /\ requests' \in [Requests -> RequestRow]
    BY <1>1, <1>7, <2>1, SaveJobType DEF PageWithoutCall
  <2>3. workers' \in [Workers -> WorkerRow]
    BY <1>1, <1>7, GotoType DEF PageWithoutCall, PCs, AtCall
  <2>4. QED
    BY <1>7, <2>2, <2>3 DEF PageWithoutCall, Typed, environment
<1>8. CASE PagesDone(w)
  <2>1. /\ GivenBack([jobs[JobOf(w)] EXCEPT !.stage = "finalize"], "partial") \in JobRow
        /\ \A g \in Groups :
              GivenBack([jobs[JobOf(w)] EXCEPT !.stage = "fallback", !.group = g], "partial")
                \in JobRow
    BY <1>1, FieldsType, GroupType, GivenBackType DEF JobStatuses, Active
  <2>2. jobs' \in [Jobs -> JobRow]
    BY <1>1, <1>8, <2>1 DEF PagesDone, Typed
  <2>3. QED
    BY <1>8, <2>2, RestType DEF PagesDone, Typed, environment
<1>9. CASE StepEnds(w)
  BY <1>9, RestType DEF StepEnds, Typed, environment
<1>10. QED
  BY <1>2, <1>3, <1>4, <1>5, <1>6, <1>7, <1>8, <1>9

(* Every step of the system keeps every variable in its type.               *)
LEMMA NextTyped == Typed /\ [Next]_vars => Typed'
<1> SUFFICES ASSUME Typed, [Next]_vars
             PROVE  Typed'
  OBVIOUS
<1>1. ASSUME NEW w \in Workers, Crash(w)
      PROVE  Typed'
  <2>1. crashes' \in 0 .. CrashLimit
    BY <1>1, JobAssumption DEF Crash, Typed
  <2>2. QED
    BY <1>1, <2>1, RestType DEF Crash, Typed
<1>2. CASE UNCHANGED vars
  BY <1>2 DEF vars, Typed
<1>3. QED
  BY <1>1, <1>2, EnvironmentTyped, PrepareTyped, StepTyped, CallTyped, SavedTyped
     DEF Next, WorkerStep, WorkerAction

LEMMA AlwaysTyped == Spec => []Typed
  BY InitTyped, NextTyped, PTL DEF Spec

(* A transaction under way has read at most what was there to be cancelled. *)
LEMMA NextOverlooks == Typed /\ Overlooks /\ [Next]_vars => Overlooks'
<1> SUFFICES ASSUME Typed, Overlooks, [Next]_vars
             PROVE  Overlooks'
  OBVIOUS
<1>1. CASE overlooked' = NothingOverlooked
  BY <1>1 DEF NothingOverlooked, Overlooks
<1>2. ASSUME NEW r \in Requests, Submit(r)
      PROVE  Overlooks'
  <2>1. requests[r].status = "absent" /\ \A q \in Requests \ {r} : requests'[q] = requests[q]
    BY <1>2 DEF Submit, Typed
  <2>2. QED
    BY <1>2, <2>1 DEF Submit, Overlooks
<1>3. ASSUME NEW r \in Requests, Cancel(r)
      PROVE  Overlooks'
  <2>1. PICK status \in {"cancel_requested", "cancelled"},
             credit \in {"voided", requests[r].credit} :
            /\ requests' = [requests EXCEPT ![r] =
                  [requests[r] EXCEPT !.status = status, !.askedStop = TRUE, !.credit = credit]]
            /\ \E seen \in {"no"} \cup IF status = "cancelled" THEN ActiveRequest ELSE {} :
                  overlooked' = [overlooked EXCEPT ![r] = seen]
    BY <1>3 DEF Cancel, Overlookable
  <2>2. requests'[r].status = status /\ \A q \in Requests \ {r} : requests'[q] = requests[q]
    BY <2>1 DEF Typed, RequestRow
  <2>3. PICK seen \in {"no"} \cup ActiveRequest :
            /\ overlooked' = [overlooked EXCEPT ![r] = seen]
            /\ seen # "no" => status = "cancelled"
    BY <2>1
  <2>4. QED
    BY <2>2, <2>3 DEF Overlooks
<1>4. CASE \/ \E j \in Jobs : TimePasses(j) \/ LeaseLapses(j)
           \/ Withdraw \/ NewPolicy \/ OthersChange \/ UNCHANGED vars
  BY <1>4 DEF TimePasses, LeaseLapses, Withdraw, NewPolicy, OthersChange, vars, Overlooks
<1>5. QED
  BY <1>1, <1>2, <1>3, <1>4 DEF Next, WorkerStep, Crash, Reconcile

LEMMA AlwaysOverlooks == Spec => []Overlooks
<1>1. Init => Overlooks
  BY DEF Init, NothingOverlooked, Overlooks
<1>2. QED
  BY <1>1, NextOverlooks, AlwaysTyped, PTL DEF Spec

(* Every reachable state of the jobs, requests, calls and workers is well   *)
(* typed, and a worker at work has a job.                                   *)
THEOREM JobTypeCorrect == Spec => []TypeOK
  BY AlwaysTyped, AlwaysOverlooks, TypedImpliesTypeOK, PTL
=============================================================================
