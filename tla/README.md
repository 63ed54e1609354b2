# Verification of DealFlow Radar

TLA+ models of DealFlow Radar: the research of a company on demand and the ledger
every paid call passes through, the workers behind it, what becomes of what they
find, what is shown to whom, and how the platform is released. TLC checks the
models on small instances; TLAPS proves every safety property of the passing runs
for every value of the constants, but for the type invariants of the composed runs.

Paths are relative to `src/`; the backend is `src/backend/app/`.

## 1. The system

DealFlow Radar follows companies for investors. Users search shared company
pages, follow companies and ask for a company to be researched. Workers, each a
short process that is started again and again, take jobs from tables in
PostgreSQL (ADR-0002: the database is the queue), call search providers, fetch
pages, and save evidence and events. Administrators review, publish, reconcile
bills. There is no message broker: components interact only through rows, row
locks, advisory locks, and leases that expire.

| Component | State it keeps | Operations | What makes it correct |
|---|---|---|---|
| **Usage ledger** `web_research_budget.py` | `usage_ledger`: one row per call key, reserved / in_flight / uncertain / settled / released, with calls and amounts | reserve, dispatch, settle, recover, reconcile | no key is called twice; a call that may have been made stays a liability; limits hold over all concurrent reservations; confirmed figures are final |
| **Research jobs** `web_research_service.py` | `company_research_jobs`: status, stage, progress document, lease, cancellation | prepare requests, lease, one stage per step, finalize, defer, cancel | one call in doubt stops the job; each waiting request belongs to an active job; what was told stays, but for a cancellation overlooked; a stopped job ends |
| **Planning and completion** `research_plan.py`, `research_completion.py`, `research_coverage.py` | the part of a job's progress document that lists candidate pages | order, cut, refill, mark, report | a complete topic has been read; nothing is read twice |
| **Requests and entitlements** `personal_features.py`, `company_refresh.py` | `personal_company_requests`, `personal_usage_records`, quota increases | submit, cancel, quota decisions | limits per day and month; one active request per target; a cooldown |
| **Views and reports** `personal_features.py` | view receipts, saved reports | view, confirm, save, reuse | what counts as seen was shown, or was unconfirmed |
| **Identity research** `identity_research.py` | a request's identity progress, its own task in the ledger | one step per lease, decide | a cancellation is not undone by a late answer; an interrupted call is not repeated |
| **Watchlist monitoring** `watchlist_monitoring.py` | `company_watch_schedules` | queue due checks, record an outcome | an outcome counts once; checks are a cooldown apart |
| **Trusted sources** `source_monitoring.py` | sources, check runs with leases, candidate documents | queue, schedule, lease, record a result, decide, import | a check is finished by its lease holder only; an older answer never replaces a newer one |
| **Mock refresh** `worker.py`, end of `services.py` | `refresh_jobs` | request or merge, lease, complete | completed once, by the lease holder; one per cooldown |
| **Investor analysis** `investor_analysis.py` | `investor_change_analyses` | enqueue, lease, call the model, validate | ended once, under the lock of its row; how far the tokens of a month can pass the limit |
| **Fetcher** `source_fetcher.py` | counters, robots and rate-limit memory of one run | request, retry, redirect, check | what an origin has said binds retries, redirects, later pages and later fetchers |
| **Matters** `research_matter_storage.py`, `matter_comparison.py`, `fact_support.py` | events with evidence and a ledger of facts | record a passage, strike evidence, retract, read again with a new release | an event is one matter; what was struck does not come back |
| **Financings** `financing_storage.py`, `financing_comparison.py` | events with observations | file a report, withdraw, retract | one round per event |
| **Tender notices** `tender_*.py` and their path in `services.py` | observations, shared events of projects | file, approve, publish, retract | the notice reviewed last is shown; only a correction changes facts |
| **Publication and sharing** `services.py`, `curated_publication.py` | events, reviews, sharing decisions, snapshot | import, review, promote, reject, retract | a shared event has permitted evidence, a retraction is not undone, the snapshot counts what is shown |
| **Curated import** `curated_import.py` | workbooks, observations of their records | preview, approve by hash, apply under a lock | the newest confirmation is shown, and only a plan that saw what it replaces replaces it |
| **Business access** `business_mcp_auth.py`, `mcp_control.py` | logins, token families, grants | log in, exchange, refresh, revoke | one chain of tokens per consent until it is revoked |
| **Business calls** `business_mcp.py`, `business_read.py` | audit rows, quota, slots of a thread pool | begin, query, deliver, time out | the audit says what was delivered, unless it cannot be written |
| **Release tool** `scripts/release_ops` | lock file, evidence, the host, the `current` link | prepare, authorize, apply, isolate, switch | isolation stays until something else is applied; the link is switched as reviewed |
| **Authentication** `auth.py` | local accounts, verification cooldown | send codes, sign in | one counter |
| Search clients, HTTP routing, diagnostics, other scripts | data, or nothing of their own | | listed in `PROJECT.json` with the reason they are left out |

How they interact. A user's *request* passes identity research, waits, and is
*prepared* by the research worker: it joins the company's active *job*, takes the
outcome of a recent one, or gets a new job. The worker leases a job and runs one
stage. Every call of the stage goes `reserve` -> `dispatch` -> HTTP -> `settle`,
each a transaction of its own except the last, which commits with the progress. A
limit turns into `WebResearchBudgetDeferred`, which defers the job. A worker that
dies leaves a running job and perhaps a call `in_flight`; the next lease makes it
`uncertain` and defers the job until an administrator reconciles the call. The
watch schedule queues jobs of its own and learns from every job how it ended.
Pages go through the fetcher; what they say becomes evidence of private events
(matters, financings, notices) and, by a decision of an administrator, of shared
events, which all users and the business interface read.

What is hard: everything between two transactions. Other callers, cancellations,
joining requests, crashes, lapsed leases, late answers, a new day, a row read
before another session changed it. The list, each hazard at its line with the
properties that cover it, is `hazards` in `PROJECT.json`.

## 2. Modules

An action is one transaction, or one stretch of code in which nobody else can
act; where the code reads, lets go and writes later, there are two actions and the
state in between is kept by the actor. Rows are functions from row numbers to
records with a status `"absent"`; what a user, a site or a model answers is a free
choice. Variables marked *history* in the modules record the past for a property;
no guard reads them.

### WebResearchBudget: the ledger

| Model | Code |
|---|---|
| `ledger[k]` | the row of idempotency key `k`; legacy rows are rows older than the reservations |
| `pc`, `held`, `made` | callers: the code of a worker around `reserve`, `dispatch`, the HTTP call and `settle` |
| `today` | the UTC day; `WeekStart`, `MonthStart` are the calendar |
| `attempts` | history: how often the provider was called for a key |
| `ReserveNew`, `ReserveAgain`, `Dispatch`, `DispatchCancelled`, `DispatchRefused`, `CallProvider`, `Settle`, `Recover`, `Reconcile` | one action per transaction, under the advisory lock where the code takes it |
| `Crash`, `NextDay` | the environment |
| `Fits` = `CallRoom`, `MoneyRoom` | `_check`: task, day and month limits on calls; five scopes of money |

Callers are not tied to job leases: any caller may take up any key at any time,
`recover` may run at any time, and a caller whose row was reconciled meanwhile
still gets its answer. This contains every behaviour the lease discipline of the
jobs allows, so what holds here holds whatever the workers do.

### WebResearchJob: requests and jobs of one company

| Model | Code |
|---|---|
| `jobs[j]` | a row of `company_research_jobs`; `groups`, `page` stand for the progress document, `late` for an exhausted `max_elapsed_seconds`, `counted` for `external_calls > 0` |
| `requests[r]` | a row of `personal_company_requests` with its month's credit |
| `calls[j][c]` | the ledger row of a call, without counts and money: `lost` is a row reconciled after a crash |
| `overlooked[r]` | the status in which the transaction under way has read a request whose cancellation was committed since |
| `version`, `jobs[j].version` | the policy's version the worker runs with, and `policy_version` of a job |
| `ahead` | whether the oldest job to be leased is another company's |
| `workers[w]` | where a worker is in `_run_web_research_worker_once` |
| `Prepare`, `Lease`, `CancelAtLease`, ..., `Finalize` | its transactions in order |
| `Submit`, `Cancel`, `Reconcile` | users and administrators, at any time |
| `LeaseLapses`, `TimePasses`, `Withdraw`, `NewPolicy`, `OthersChange`, `Crash` | the environment |

*What a transaction reads and writes.* The worker's transactions that tell a job's
requests hold the lock of the job's row, but list the requests by a plain `SELECT` and
update them afterwards; `prepare_pending_research_requests` locks the company only. A
cancellation that writes the job too (that of its last active request) is shut out by the
row's lock; any other may be committed between the list and the update, which then
overwrites it. `Cancel` therefore has two outcomes: either no transaction is under way, or
one has read the request (`Overlookable`), and then `overlooked` keeps what it read until
the worker's next action. `Seen` is the status every handler of the worker decides and
writes by. An update that does not change the status it has read writes nothing and keeps
the cancellation (`Tell`, `JoinRequests`). With the one worker of ADR-0015 the transaction
that has read is the worker's next action, so that this is exact; of several workers it
would follow one transaction at a time. `Cancel` itself reads the job without a lock when
other requests are active; that read is taken at the time of its commit.

*Which job is leased.* `_lease_job` takes the oldest leasable job of the policy's version
over all companies. Of this company that is `FirstInLine`; `ahead` says that another
company's comes first, which may change at any time and, since a job in doubt is leased and
deferred again and again until it is reconciled, may last for ever. A job of an older
version is never leased again.

What a search or a page brings is a free choice: enough results, a fallback, a
failure, no candidates. A limit may refuse any call (`CallRefused`): which limits do
so is the subject of the ledger's module. The models meet in `Reserve` .. `Settle`
and `Recovered`, which are the ledger's actions seen from one job. Left out: model
calls while a page is processed; the stages of a planned job beyond search,
fallback and pages, which are in ResearchQueue.

### ResearchQueue: what a planned job searches and reads

| Model | Code |
|---|---|
| `group`, `heard`, `stage` | `search_groups`, the stored answers of the primary searches, `current_stage` |
| `queue`, `index`, `kinds`, `shelved`, `slotted` | `candidates`, `candidate_index`, who found a page, `deferred_candidates`, `scheduling_reason` |
| `body`, `recovery`, `followUp` | `documents`, the source recovery, the gap follow-up |
| `SearchGroup`, `ReadFallback`, `ReadNext`, `Recover`, `Follow`, `Finalize`, ... | one worker step each |
| `Ordered`, `Reorder`, `Refilled` | `order_candidates` with the cut and the refill, applied by every step as the code does |

The tail that is not yet read is sorted anew at every step; what is cut is kept in
`deferred_candidates` only for planned jobs. Sorting and selecting are the module's own
operators `Sorted` and `Only`, defined by a choice for each place of the result: those
of the community modules are defined by `CHOOSE` of a whole permutation and by
recursion, from which the provers get nothing.

### LeasedJob, and the three workers that implement it

`LeasedJob` is the abstract specification: a table of tasks, each entered, taken,
abandoned and finished at most once; a *guarded* task is finished by its holder only.

- **SourceMonitoring**: sources, checks and candidates. A check is three
  transactions (`LeaseCheck`, load, record) with the HTTP requests after the second (`FetchSource`);
  a dry run compares no lease and is not guarded. A task is a check; the holder is the
  worker whose lease the row carries.
- **MockRefresh**: a request reads (`ReadRefresh`), then inserts or merges
  (`InsertRefresh`); a worker leases and completes. The clock decides cooldowns,
  buckets and leases.
- **InvestorAnalysis**: the lease does not exclude a second worker, since nothing
  compares it; the row lock taken before the model call does. The refinement
  therefore maps the holder to the worker that has the lock. The statuses completed and
  failed are one, `"ended"`: nothing tells them apart. A worker checks that
  `ProjectedTokens`, the bare request and one answer, fit in the month; what the analysis
  then costs is anything up to `CallTokens`, since the client sends a prompt and a schema
  besides and sums up its attempts. The policy limits each of them, so there is such a
  bound, but it is not the projection. `unrecorded` counts the calls whose tokens
  the ledger misses in part or whole: attempts answered by an HTTP error or not in JSON,
  and crashes.

### Schedules and members

- **WatchSchedule**: a scheduler lists the due companies (`ListDue`), then locks
  each, looks again and queues or joins a job (`QueueDue`). `EndCheck` is
  `record_outcome` in the transaction that ends a job, `RepeatRecord` the second
  call after the commit.
- **Entitlements**: one member. `BeginSubmission` is what a submission reads before
  the user lock, its clock included, `EndSubmission` what it decides again under it.
  `CancelPetition` voids usage, `AskRaise` and `DecideRaise` are quota increases.

### What is found

- **MatterRecords**: passages, the event each joins or begins (`RecordMatter`), and
  the ledger of facts; `Upgrade` deploys a release that reads old passages in
  another way. `StrikeEvidence` and `RetractMatter` do not wait for the company lock.
  `ReadMatters` and `RecordMatter` are the two halves of a recording transaction.
- **FinancingRecords**: reports of financings against the company's events: identity
  of reports, bridging check, kinds of observations.
- **TenderRecords**: notices from filing over approval (checked before and again
  under the lock: `ChooseNotice`, `LockProject`, `CommitApproval`) to what is shown.

### What is published and shown

- **Publication**: candidates, documents, private leads, shared facts, reviews, the
  snapshot. A clerk's handler is `ClerkBegins`, what it reads, and `ClerkEnds`, what
  it writes.
- **CuratedImport**: one record of one company; preview, approval by the plan's hash,
  application in two steps under an advisory lock. A retraction may fall between them:
  then the promotion, which reads the shared event without a lock, either sees it and the
  application rolls back (`GiveUp`), or writes over the fields of the retracted event,
  whose status stays (`StoreRecord`).
- **PersonalContent**: one member and one company: what the pages (`tab`) have
  rendered, and what they confirm later. Whether a fact is confirmed is no part of its
  version: an answer tells confirmed facts only, a view marks all of them
  (`passedOver` remembers those it marked unconfirmed).
- **BusinessOAuth**: each call of the token store is one transaction, so that
  refreshing is two (`ConsumeRefresh`, `RenewTokens`); `token` is the set of tokens ever
  issued with their expiries.
- **BusinessCalls**: one process; a step lies between two awaits. The query runs in a
  thread that a timeout does not end. Writes of the audit may fail: a quota that cannot be
  charged (`QuotaFails`), an outcome that is not written (`TryFinish`), and the swallowed
  failure of the row's cancellation, after which the error is sent all the same
  (`AbortCall`; `unwritten` remembers those calls).

### Others

- **IdentityResearch**: requests, the shared dossier, the calls and the workers that
  take a request, reserve, dispatch, answer and save, against cancellation and
  administrators' decisions.
- **SourceFetch**: one check of one source, one request per step, with the memory that
  `NextFetcher` hands on: rules may be forgotten (15 minutes, size, number of origins),
  an origin's 429 is not.
- **ReleaseOps** and **ReleasePointer**: the host under typed actions, and the switch
  of the `current` link; every invocation is a process that may die at any step, and
  a command may land after its process is dead.

### Instances and proofs

`MCWebResearchBudget`, `MCWebResearchJob`, `MCBackground` (with `MCFinancing`,
`MCMatters`) and `MCPlatform` are the small instances. `WebResearchBudgetProofs`,
`WebResearchBudgetLimits`, `WebResearchJobProofs`, `WebResearchJobOutcomes`,
`ResearchQueueProofs`, `LeasedJobProofs`, `PlatformProofs` and `RecordsProofs` hold the
theorems.

## 3. Runs

| Run | Instance | Shows |
|---|---|---|
| `budget_calls` | 2 callers, 3 search keys of 2 tasks, 1 legacy row, 3 days | `CalledAtMostOnce`, `CallIsLiability`, `CallsWithinLimits`, `ConfirmedIsFinal`, `HeldUntilConfirmed` |
| `budget_money` | 1 caller, known, unknown and no prices, 2 companies, unpriced history, 3 days | `MoneyWithinLimits` in all five scopes |
| `job_life` | 1 worker, 2 requests, 1 job of 1 group and 1 page, 1 crash | `WorkingRequestHasActiveJob`, `OneCallInDoubt`, `DoubtStopsProgress`, `RequestOutcomeFinal` |
| `job_stop` | 1 worker, 1 request, 1 crash, 1 new policy, jobs of other companies, fairness | `StoppedJobEnds` |
| `platform` | eleven components, see below | what is fetched, identified, published, served and released |
| `background` | seven components, see below | leased jobs, schedules, allowances, what is recorded |
| `job_cancel_others`, `job_cancel_reserved`, `job_deferred_groups`, `job_credit` | 1 worker, 2 requests, 2 jobs, 2 groups, 1 crash | divergences between the documents and the code, section 5 |
| `job_cancel_kept` | 1 worker, 2 requests, 1 job, no crash | the same: a cancellation is overwritten |
| `financing_rounds` | 1 filer, 5 reports, 1 curated record, 2 withdrawals | a divergence between a comment and the code, section 5 |

`budget_calls`, `job_life`, `platform` and `background` also check `TypeOK`.

*Composed runs.* The components of `platform`, and those of `background`, share no
state that the models follow. A behaviour of these runs is therefore one of a single
component, chosen by `component` in the initial state; the others stay in their
initial states. The state spaces add up instead of multiplying, and no interleaving
is lost, since no action of one component reads a variable of another.

| `platform` | Instance | States | Properties |
|---|---|---|---|
| SourceFetch | 2 origins, up to 3 pages, 4 requests, 1 retry, 1 redirect, 2 fetchers | 90,000 | `OriginRulesKept` |
| Publication | 2 clerks, 3 records of 2 leads of one fact, 1 review | 118,000 | `SharedAsDecided`, `RetractedForGood` |
| CuratedImport | 2 curators, 3 workbooks with 2 versions, 1 tick | 78,000 | `NewestConfirmationShown` |
| ReleaseOps | 2 operators, 1 attempt, 1 failure or death | 189,000 | `IsolationHolds` |
| ReleasePointer | 2 operators, 3 attempts, one of them back to the first release | 62,000 | `SwitchedAsPrepared` |
| BusinessOAuth | 1 login, 3 tokens, 2 exchanges, 5 ticks | 28,000 | `OneChainUntilRevoked` |
| BusinessCalls | 2 callers, 1 slot, 1 admission and 2 charges per window, 2 windows | 24,000 | `AuditTellsDelivery` |
| PersonalContent | 1 fact of 2 versions, each confirmed or not, 2 tabs, 2 report keys | 18,000 | `SeenWasShown` |
| IdentityResearch | 2 requests for one subject, 2 workers, 1 administrator, 1 search, 2 fetches | 281,000 | `OneIdentityCall`, `WorkersKeepCancellation` |
| ResearchQueue | 2 groups, 3 candidates, one denied, a queue of 2 | 276,000 | `CompleteMeansRead`, `ReadOnce` |
| TenderRecords | an award, its correction, another holder's correction back, 2 approvers | 11,000 | `ReviewedLastIsShown` |

| `background` | Instance | Properties |
|---|---|---|
| SourceMonitoring | 1 source with 1 link, 2 versions, 2 checks, 2 workers, 1 tick | `ChecksAreLeased`, `AnswersInOrder` |
| MockRefresh | 2 sessions, 2 workers, 3 jobs, 4 ticks | `RefreshesAreLeased`, `OneRefreshPerCooldown` |
| InvestorAnalysis | 2 workers, 3 events, 2 months, a projection of 1 and a cost of up to 2, limit 1, 1 loss | `AnalysesAreLeased`, `MonthlyTokensBounded` |
| WatchSchedule | 1 company, 2 schedulers, 2 jobs, 1 worker | `ChecksSpaced` |
| Entitlements | 2 submissions, 2 targets, 2 requests, 1 increase | `RequestsAdmitted` |
| FinancingRecords | 2 filers, 5 reports of 2 rounds and none, 1 curated record, 2 withdrawals | `OneRoundEach` |
| MatterRecords | 2 sessions, 3 passages, 1 curated record, 2 withdrawals, 2 releases | `MattersHoldTogether`, `NotRevived` |

`job_life` has 3.1 million states, `job_stop` 1.4 million, `platform` 1.2 million,
`background` 370,000.

Why the bounds are enough. The ledger: two callers race for one key, a third key
belongs to another task, so that both the task's and the system's limits are met;
with three days, a reservation of the first period is open in the second and the
third. Limits are set so that the next call just fits or just does not. The job:
a job of one group and one page has all three kinds of calls (primary search,
fallback, page) and passes through every stage; two requests are enough for one to
join, cancel or end while the other waits. No passing run has a second job after the
first (two jobs and two requests have five million states without pages or crashes);
the violation runs have two, and the theorems about what users are shown hold for any
number. Elsewhere two actors are what a race needs; the third party (a user who
cancels, an administrator, a clock) is an action of its own. Of data there is one
item more than a decision compares: two versions, so that a page can confirm the one
before the present; three reports, so that one can be a bridge between two; three
attempts, so that one returns to the link another has replaced. A lease, a cooldown
and a token live for one or two ticks and the clocks go on for at least one tick
more. A call of the business interface that comes while another is admitted is turned away,
and one that comes in the next window shares the slot with a query that is still running.
The projection of an analysis is half of what it may cost, and the limit is one
projection: two workers in calls at once pass it, and so does one. The answer of a search
in IdentityResearch (`MCSearchAnswers`) is nothing, or a page of somebody else and two of
the subject: the least that fetches more than once.

Two instances start from chosen states to stay small: a review and automatic
publication do not occur in one behaviour of Publication, nor do an administrator's
decision and a second request in one of IdentityResearch. The theorems make no such
choice.

Symmetry. `platform`, `background` and the runs of the ledger and the jobs permute
actors and, in `background`, events: none is named by an action, an order or
another constant. No run with symmetry checks liveness.

Deadlock. The runs of the jobs check it. `budget_calls` and `budget_money` do not: on
the last day, with all rows confirmed, nothing remains to be done. Neither do the
composed runs and `financing_rounds`: clocks, tokens, attempts and reports are bounded
there and end, after which a component may really stop.

One worker. ADR-0015 prescribes a single research worker. The code does not
enforce it: a worker that outlives its lease goes on, without comparing the lease
when it saves. With two workers and two groups a job can have two calls in doubt, so
`OneCallInDoubt` is checked, and proved, for one worker only. The theorems about what
users are shown hold for any number of the model's workers, which leave out one thing,
two transactions that have both read a request before its cancellation.

Fairness of `job_stop`. The worker's step is weakly fair: `run_web_research_worker.py`
loops over steps and sleeps. It exits after a deferred or failed step, and with `--drain`
when nothing is left; `compose.production.yml` does not restart it, and the runbook has
an operator look at the cause and run it again. That somebody does is an
assumption about the operation, not about the code: a worker that is never run again ends
no job. Lapsing of a lease is weakly fair: time passes. Nobody
else is assumed to act: users may never cancel again, administrators may never
reconcile. That this company's job is leased is not assumed either: jobs of other
companies may come first for ever, for instance an older one in doubt that nobody
reconciles, and a new policy may leave the job behind. `StoppedJobEnds` is therefore
conditional, `<>[]~ahead` and `Current(j)`, and both conditions fail in some behaviours of
the run; without either the property is false. Crashes are bounded by `CrashLimit`; a
worker that crashes in every step ends no job. The other specifications state no fairness:
their properties are safety.

Bounds that exist in the models only: `MaxDay`, `JobLimit`, `PageCount`, `CrashLimit`,
`VersionLimit`, the sets of counts and costs; every constant named `...ClockEnd`; `CheckLimit`,
`FetchLimit`, `RefreshLimit`, `CheckJobMax`, `CheckWorkers`, `PetitionMax`, `RaiseMax`,
`WithdrawalMax`, `StrikeMax`, `LossMax`, `LossLimit`, `TroubleMax`, `FetcherLimit`, `TokenMax`,
`GrantMax`, `VersionMax`, `InquiryCount`, `CandidateMax`, `GroupMax`, `AnswerMax`.

## 4. Proofs

The theorems hold for arbitrary actors, rows, keys, limits and clocks. What they
assume of the constants is the named assumption of their module (`BudgetAssumption`,
`JobAssumption`, `RefreshAssumption`, ...): bounds are natural numbers, leases and
cooldowns are positive, sets that are counted are finite, a calendar is monotone, a
placeholder is none of the values it stands beside, there is at least one analyst, a
projection is at most a cost. TLC evaluates these assumptions in every run of a module
that extends theirs. Three theorems assume more.
`SingleWorkerSingleDoubt` and `DoubtHoldsTheJob` are about one worker (`Alone`), as
ADR-0015 prescribes: with two they are false. `WatchChecksAreSpaced` needs
`WatchCooldown <= FailureWaitMax`, since after a failure
the next check waits for the failure wait alone. The defaults (24 hours and 30 days)
satisfy it; the configuration does not enforce it, and a deployment that set the
longest failure wait below the cooldown would check more often after failures than
after successes.

| Module | Theorem | States |
|---|---|---|
| WebResearchBudgetProofs | `TypeCorrect` | `TypeOK` of the ledger |
| | `NeverCalledTwice` | `CalledAtMostOnce` |
| | `CallsStayLiabilities` | `CallIsLiability` |
| | `ConfirmationsAreFinal` | `ConfirmedIsFinal` |
| | `ReservationsAreHeld` | `HeldUntilConfirmed` |
| WebResearchBudgetLimits | `CallLimitsHold` | `CallsWithinLimits`: of a task, of a day, of a month |
| | `MoneyStaysWithinLimits` | `MoneyWithinLimits`: in all five scopes |
| WebResearchJobProofs | `JobTypeCorrect` | `TypeOK` of the jobs |
| WebResearchJobOutcomes | `OutcomesStay` | `RequestOutcomeFinal`: but for a cancellation a transaction has overlooked |
| | `WorkIsUnderWay` | `WorkingRequestHasActiveJob` |
| | `SingleWorkerSingleDoubt` | `OneCallInDoubt`, for one worker |
| | `DoubtHoldsTheJob` | `DoubtStopsProgress`, for one worker |
| ResearchQueueProofs | `QueueTypes` | `QueueTypeOK`, a part of the platform's `TypeOK` |
| | `NothingReadTwice` | `ReadOnce` |
| | `CompleteWasRead` | `CompleteMeansRead` |
| LeasedJobProofs | `RefreshesImplementLeases` | `RefreshesAreLeased`: MockRefresh implements LeasedJob |
| | `AnalysesImplementLeases` | `AnalysesAreLeased`: InvestorAnalysis does |
| | `ChecksImplementLeases` | `ChecksAreLeased`: SourceMonitoring does |
| | `RefreshesSpaced` | `OneRefreshPerCooldown` |
| | `AnswersRecordedInOrder` | `AnswersInOrder` |
| | `TokensStayBounded` | `MonthlyTokensBounded`: by how much the month's limit can be passed |
| PlatformProofs | `NewsStayNews` | `SeenWasShown`: but for the first view's history and what was unconfirmed |
| | `SwitchesArePrepared` | `SwitchedAsPrepared` |
| | `AuditAgrees` | `AuditTellsDelivery`: but for a row that could not be cancelled |
| | `NewestStays` | `NewestConfirmationShown`, over retractions that an application does not see |
| | `SharingIsDecided`, `RetractionsHold` | `SharedAsDecided`, `RetractedForGood` |
| | `IsolationStays` | `IsolationHolds` |
| | `OneChain` | `OneChainUntilRevoked` |
| | `FetchKeepsRules` | `OriginRulesKept` |
| RecordsProofs | `RequestsAreAdmitted` | `RequestsAdmitted` |
| | `CancelledStays` | `WorkersKeepCancellation` |
| | `LastReviewIsShown` | `ReviewedLastIsShown` |
| | `WatchChecksAreSpaced` | `ChecksSpaced` |
| | `StruckStaysStruck` | `NotRevived` |
| | `MattersStayTogether` | `MattersHoldTogether` |
| | `OneCallAtATime` | `OneIdentityCall` |
| | `OneRoundPerEvent` | `OneRoundEach` |

### The arguments

*Calls.* `CalledAtMostOnce` is not inductive. Nothing in it forbids a state where
two callers hold the same dispatched row and both go on to call. `CallInvariant`
adds that a key has at most one caller between `dispatch` and `settle`
(`OneCallerPerKey`) and that a row that is not dispatched was never called
(`UndispatchedNotCalled`). `Dispatch` is the interesting step: its re-read of the
state under the lock is what makes a second caller impossible.

*Limits.* Sums are sizes of sets of unit pairs `<<k, i>>`, so comparing sums is
comparing finite sets (`TotalMonotone`, `TotalWith`). Every step is of one of three
kinds (`StepKinds`): it reserves a new row, it begins a new day, or it replaces rows
by rows that count for no more and stay where they are in the windows (`Shrinks`,
by way of `Follows`, the relation between a row and its successor). A new day only
drops rows from the windows, since the calendar is monotone and open rows stay;
shrinking keeps every bound; reserving is guarded by the very bound. Rows count for
at most what they reserved (`Authorized`): a provider that reports more requests than
were reserved has broken its promise and the code records `reservation_exceeded`.

*Money.* The same kinds of steps, with amounts for counts. `MoneyWithinLimits` is
inductive only with `SettledAsPriced`: what a settled row costs is its calls at the
key's price, or nobody knows it, or a receipt says it. Without that a receipt could
raise what a settled row counts for. `Moves`
lists how a row may change after its reservation, and each way counts for no more
than before (a row settled without a price keeps its whole reservation). `Fits` bounds
the new row in all five scopes of its key (`ScopesHold`); the rows of another key's
scopes are the same sets, since a scope depends on task, company and day only.

*History.* `Lawful` lists the ways a step may change a row, whoever takes the step;
`ConfirmedIsFinal` follows from it and the type alone. `HeldUntilConfirmed` also says
that a released row was never called, and for that needs `UndispatchedNotCalled`.

*Jobs.* `TypeOK` is not inductive: the page that an answer belongs to is the number in
the call the worker is at, so `Typed` adds that a worker on its way through a call is
at a call. `WorkingRequestHasActiveJob` is inductive with `Typed`, and its proof groups
the actions by what they do: a job goes on and its requests are told so
(`JobGoesOn`), a job ends and none of its requests is left at work (`JobEnds`,
`EndTold`), or nothing is told and no job ends (`OneJobStays`). The argument for
`Cancel` is that a job ends with its last active request only; that for a worker that
lost its lease is that every save either revives the job it writes or tells its
requests. A request whose cancellation is overlooked is written by what was read of it, so
that it is told what the others are, or stays cancelled. Nothing in these proofs assumes
that a lease is exclusive.

*Calls in doubt.* With one worker `OneDoubt`: while the worker is on its way to a call,
has saved an answer or finalizes, no call of its job is in doubt; between dispatch and
settlement only the call it is at. A crash leaves that one, and the next lease
recovers the job before anything else: `Ready` is what carries the invariant over a
restart. `DoubtStopsProgress` follows from it, and from `Numbered`: jobs are numbered as
they are made, requests and workers name jobs that exist, and a job that does not exist
yet has no calls in doubt, so that the new row of a job is no progress of an old one.

*The queue.* `QueueInv`. Sorting gives each page a place of its own: the number of pages
before it, which is a bijection since `Before` is a strict total order (`SortedOnce`,
`PlaceNumbers`: the last of a place's numbers is the page's own). Then each way of putting
the queue together (merge, re-ordering, refill, extra pages, cut) gives a list without
repetitions that begins with what was read (`QueueLists`); `ReadOnce` is the consequence that
the next page has not been read. `QueueFound` says that what a search returned to a
planned job is in the queue, is recorded as deferred, or is forbidden by rules that were
known; a complete topic has nothing deferred and nothing unread in the queue, so all
that was found of it was read. Nothing is read before the last search (`QueueStages`),
which is why the merge may sort the whole queue.

*Leases.* Each refinement maps the rows to phases and the worker whose lease the row
carries to the holder, and shows that every step is an abstract step or a stutter.
The invariants say why a worker that comes back late is not the holder: a running row
has an expiry, a worker's remembered expiry is the row's or an earlier one, and no two
workers remember the same (`MockLeases`, `CheckerLeases`). For analyses the holder is
the worker with the row lock, and `AnalysisInv` says that a locked row is running and
has one such worker.

*Refreshes.* `SessionsRead`: a request that has read found every job that existed then
cooled down, and the jobs that came later were made after it read. `CooldownInv` is
this with the property itself.

*Tokens of analyses.* `TokenInv`: a worker in a call passed the check of the month with
what was recorded then, so the tokens recorded so far and its projection fit in the limit.
The calls beside it are at most those of the other workers, and each, its own too, may cost
`CallTokens`: recorded tokens and the costs of the calls under way stay within `MonthRoom`,
the limit less one projection and a full cost for each worker. What was charged
exceeds what was recorded by at most the cost of the `unrecorded` calls. `MonthlyTokens`
is the sum over the months from the analysis's own on, as a number of unit pairs, of which
those after the present are still empty.

*Answers.* `AnswersInv`: a source has one open check (`OneOpenCheck`, the partial
unique index), and the answer of an open check's worker was fetched after the one
recorded last (`AnswersFresh`). A worker whose check another has finished can
record nothing, whatever it fetched.

*Views.* `ContentInv`: what is on a page has a version (`PublishedVersions`), tabs hold
shown versions (`TabsWereShown`), receipts hold versions that were shown, were left out by
the first view, or were passed over unconfirmed (`ReceiptsWereShown`).

*The link.* `PointerInv`: a rehearsal or a switch is made by the holder of the lock,
which names its attempt (`LockedSteps`), after the candidate was accepted
(`AcceptedSteps`), and what was compared under the lock still is so when the link is
replaced (`ReviewedLinks`).

*Calls of the business interface.* `CallInv` ties, for each place a request may be at,
its audit row, its thread and what was sent (`CallTold`): the answer follows the
outcome `returned`, and that a completed query; an error leaves no row `prepared` or
`returned` unless its cancellation is among the `unwritten`.

*Origins.* `FetchInv`: rules are asked for only while nothing is known of the origin, and
while a page is asked for, what is known permits it (`RulesHeld`): errors, retries and
redirects in between change what is known of other origins or end the page.

*Curated records.* `CuratedInv`: one curator applies at a time (`OneApplies`), and between
the plan under the lock and the commit nothing but a retraction happens to the fact, which
changes its status and nothing the plan compared (`PlanHolds`). A commit never sets the
status of a retracted fact.

*Sharing.* `PublicationInv` is `SharedAsDecided` with the shape of the rows and what an
open transaction knows (`ClerksKnow`): the evidence of a promotion is of its lead. That
no lead is both promoted and rejected rests on the unique index alone, and the proof
shows that it is enough.

*Isolation.* `RunsUnderLock`: who runs commands has the lock; while somebody runs no
isolation has passed, and one that is under way is his and has done what its
commands up to now do. `IsolationHolds` is the end of that sequence.

*Tokens.* `Family(l)`: one refresh token is usable, or one request has consumed it and
brings the next (`OneAtATime`); a family has nothing before its code is exchanged
(`NothingBefore`); expiries are bounded by the clock (`TimesBounded`); and the record of a
revocation outlives whatever was issued before it (`RevokedOutlives`). The last is what
makes it safe that the record expires: it is given the longest life a token can have.

*Allowances.* `MemberInv` strengthens the sums to all days and months, not those of the
records only (`DaysKept`, `MonthsKept`), with records numbered in the order they were made
(`Numbered`). The extras in force at the clock a submission read *before* the lock
are among those ever in force on that day, which is why a stale clock does no harm.

*Cancelled requests.* `WorkersKeepCancellation` needs only the shape of the rows: every
save of a worker reads the row again under its lock, and no step of a worker sets a
cancelled row to anything else. Administrators are the exception in the property.

*Identity calls.* `OneCallInv`. A worker with a reservation it may still use has notes
equal to the dossier, no mark `in_flight`, and a request that will not take over another's
notes (`ReadyToCall`, `StaysOwn`); one in a call has marked the dossier, unless the request
was cancelled, in which case nobody begins another (`CallMarked`). So a second worker finds
either the mark, or a dossier that is not its notes.

*Notices.* `TenderInv`: the facts are those of the notice reviewed last (`LastReviewed`);
two that follow each other differ only by a correction (`CorrectedOnly`); one session has
a project's lock (`LockedAlone`), and what it saw before still holds but for a retraction
(`SeenHolds`).

*Watch checks.* `EndsCovered`: a schedule's cooldown reaches at least a cooldown beyond
the outcome recorded last and beyond the end of its job. Since the outcome is recorded in
the transaction that ends the job, a scheduler that looks again under the lock sees it;
the second recording has the same key and changes nothing. Jobs are numbered in the
order they are made (`ChecksNumbered`).

*Financings.* `FilingInv`: one filer is inside the company's lock (`FilingShape`), the report it
files is in no event (`FiledOnce`), and the event it chose shows no other round than the
report's (`RoundsApart`), which stays true because only withdrawals come between. An
event that the report joins without being conflicting is *plain*, the exception of the property.

*One matter.* `TogetherInv`: the displayed evidence of an event agrees pairwise unless the
founding passage was read again another way (`Coherent`); every displayed claim was assessed
against every displayed passage in its present reading (`Assessed`), which is what makes
the stored ledger of facts complete; and what a session decided still fits the event when it
records (`SessionFits`), since the others can only take evidence away.

*Struck matters.* `StruckShows`: a struck passage always has a row that suppresses it,
in whatever version of the processing; with it a recorder that reads now finds it.

### Only model-checked

- `StoppedJobEnds`: liveness, out of the prover's reach.
- `TypeOK` of the composed runs: the shapes the proofs need are part of their invariants
  (`MemberShape`, `TenderShape`, ...); a whole type invariant is proved for the ledger, the
  jobs and the queue.

## 5. Where the code and its documents disagree

Each has a run that ends in a counterexample, and an entry in `findings`.

- `job_cancel_others`. `docs/08-api-design.md` line 73: a cancellation ends only the
  user's own request. The code keeps `cancel_requested_at` on the job when another
  request joins it, and the next lease or stop check cancels both.
- `job_cancel_kept`. `docs/12-operations-runbook.md` line 304: cancelled requests are
  not started again. The worker's transactions list the waiting or active requests without
  a lock and write their status later (`web_research_service.py:593`, `:738`, `:3636`,
  `:3711`, `:3763`); a cancellation committed in between is overwritten.
- `job_cancel_reserved`. `docs/06-cost-control.md` line 125: a cancellation before the
  call releases the records not dispatched. `_cancel_job` does; the direct
  cancellation of a job between two steps does not, and nothing recovers them later.
- `job_deferred_groups`. `personal_features.py` line 118 tells the user that the
  remaining steps go on when the budget allows. A deferral marks every pending group
  as deferred, nothing marks one pending again, and a resumed job never searches them.
- `job_credit`. ADR-0015 line 38: the month's credit may be returned only if no
  external call was made. The code asks `external_calls`, which counts a call once
  its answer is saved, not while it is under way or in doubt.
- `financing_rounds`. The comment at `financing_storage.py` line 223: the earliest
  observation without a round must not become a bridge between rounds known to differ.
  The rounds already in the event are read from observations of three kinds only. When
  the report that gave the event its round is withdrawn and a conflicting one of the same
  round remains, a report of another round joins.

### Exceptions and observations

The properties name their exceptions; these are behaviours of the code that no
document rules out but that its maintainers should know.

- *Research jobs.* A slow worker's save can revive a cancelled job
  (`web_research_service.py:3632`). A cancellation during finalize leaves the user's
  request `cancel_requested` on a completed job (`:3712`). A failed network check or a
  withdrawn company ends a job before its interrupted calls are recovered (`:3899`). The
  coverage document is written back whole (`:3631`). The oldest job in doubt
  is leased and deferred again at every start of the worker until it is reconciled, and
  the worker process ends with every deferral (`run_web_research_worker.py:174`): younger
  jobs of all companies wait meanwhile (`web_research_service.py:835`). A job of an older
  policy version is never leased (`:813`), yet `_active_job` (`:571`) goes on joining
  requests to it, and a stop that was asked of it is never carried out.
- *Watchlist.* An outcome is recorded in the job's transaction and again after it; a
  user's cancellation of a queued watch job records none.
- *Trusted sources.* A dry run is completed by a worker that has lost its lease; only the
  unique key of its usage record stops a second completion. A changed path prefix is
  undone when a check under way is answered "unchanged" (`source_monitoring.py:1257`).
  After a partial check a 304 passes over the children that failed. Content that returns to
  an earlier version is a duplicate. `decide_candidate_document` reads without a lock
  (`:741`).
- *Mock refresh.* A slow request across the boundary of a cooldown bucket gets a second
  job (the exception of `OneRefreshPerCooldown`).
- *Investor analysis.* The lease is not compared after the row is locked. The projection
  (`investor_analysis.py:775`) counts one attempt and neither the system prompt nor the
  schema, while the client retries and sums its attempts (`deepseek.py:133`, `:221`): a
  single analysis can pass the month's limit. A crash during the call, an HTTP error or an
  answer that is not JSON (`:155`) loses the record of its tokens. `MonthlyTokensBounded`
  says how far this goes.
- *Views.* A fact that is unconfirmed when a view marks it as seen, which every view does
  although its answer leaves the fact out (`personal_features.py:1257`, `:1283`), is no news
  when it is confirmed later in the same version (exception of `SeenWasShown`).
- *Curated records.* A fact retracted after `promote_private_event` has read it
  (`services.py:3007`) is given the promoted content (`curated_publication.py:92`), although
  it stays retracted.
- *Fetcher.* The robots rules of a redirect's target are those of the page's origin only
  if it was checked before; a byte limit reached does not end the loop over links.
- *Publication.* `decide_review` reads without a lock: a rejection can overtake an approval
  that the snapshot counts, and a late reviewer can publish a retracted demonstration
  event again (`services.py:4010`; exceptions of `SharedAsDecided`, `RetractedForGood`).
- *Identity.* Decisions read without a lock; a late save reopens a rejected or failed
  request; a copied dossier carries its mark `in_flight`.
- *Tender notices.* A refusal takes no lock, and can race an approval. A conflicting notice
  filed again is "same facts", and may be published; a correction filed before its
  original makes the original conflicting for good.
- *Financings.* A document is filed once, even if its event was retracted since; an event
  that began ambiguous never attracts a later report.
- *Matters.* The passage an event began with finds it by the fingerprint and not by
  comparison (exception of `MattersHoldTogether`); a passage read with another day or
  round begins a second event and leaves its old evidence in the first.
- *Business access.* Refreshing is two transactions: a process lost in between costs the
  client its chain. When the audit cannot take "cancelled" either, the 503 is sent beside a
  row that says `prepared` or `returned` (`business_mcp.py:268`; exception of
  `AuditTellsDelivery`). A timeout leaves the query running in its slot.
- *Release.* Evidence up to 300 seconds old is read before the lock is taken; a command
  that outlives its killed process may land after an isolation (exception of
  `IsolationHolds`); what a rehearsal leaves behind when it dies blocks the next one.

## 6. Plan

What is left of it:

1. The composition of IdentityResearch with the ledger's module, and of ResearchQueue's calls
   with WebResearchJob's: each is modelled with what it needs of the other.
2. Type invariants of the remaining components as theorems of their own, from the shapes
   that their invariants contain.
3. A bound on the calls in doubt of a job for several workers, in place of
   `OneCallInDoubt`.
4. Feeds and sitemaps in SourceMonitoring, batches of files in CuratedImport.

## 7. Not modelled, and why

Text: classification, extraction of readings and facts from documents, wording of
reports. Clients of external HTTP services: the models choose their answers. Reads that
change nothing: the projections of the business interface, the diagnostic server and the
evaluations. Authentication: accounts and tokens belong to an external provider, and the
cooldown of verification codes is one counter. Feeds and sitemaps, which write as list
pages do from other lists of links. Official identity imports, batches of workbooks,
backups, migrations, the other scripts and the front end. Model calls within a page, with
their own operations in the ledger. Isolation of concurrent transactions below the level
of whole handlers: a transaction is atomic in the models except where the code reads
without a lock what it later relies on; there, reading and writing are two actions or the
place is listed as a hazard.
