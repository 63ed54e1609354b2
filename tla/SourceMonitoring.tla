-------------------------- MODULE SourceMonitoring --------------------------
(***************************************************************************)
(* Trusted sources of a company (source_monitoring.py): administrators add,  *)
(* switch and re-scope sources and queue checks of them, a scheduler queues  *)
(* the checks that are due, workers lease a check, fetch the source with     *)
(* the validators of what is known (If-None-Match) and record what changed   *)
(* as candidate documents; Publication follows these to shared events.       *)
(*                                                                         *)
(* A check is three transactions (lease, load, record) with the HTTP         *)
(* requests after the second.  A page's content is a version, and may be     *)
(* another at every fetch; its validator (ETag, Last-Modified) is the        *)
(* version it was served with, for the versions the site tags.               *)
(***************************************************************************)
EXTENDS Naturals, Sequences, FiniteSets, SequencesExt

CONSTANTS
    TrustedSources, \* sources an administrator may add
    Links,          \* pages that a list page links to, in this order: a sequence
    Versions,       \* contents of a page
    Tagged,         \* the versions that the site serves with a validator
    CheckLimit,     \* bound: rows of source_check_runs
    Checkers,       \* processes of run_source_monitor_worker.py
    CheckLease,     \* worker_lease_seconds
    Frequency,      \* check_frequency_minutes
    BackoffLimit,   \* failure_backoff_max_multiplier
    ScheduleLimit,  \* scheduler_max_sources_per_run
    SourceClockEnd, \* bound: the clock stops here
    FetchLimit,     \* bound: fetches of a source
    None            \* no value

Checks == 1 .. CheckLimit      \* in the order of created_at
Start == "start"                \* the start page
SourceTimes == 0 .. SourceClockEnd
LinkSet == {Links[i] : i \in DOMAIN Links}
Urls == {Start} \cup LinkSet

ASSUME SourceAssumption ==
    /\ CheckLimit \in Nat /\ SourceClockEnd \in Nat /\ FetchLimit \in Nat
    /\ CheckLease \in Nat \ {0} /\ Frequency \in Nat \ {0}
    /\ BackoffLimit \in Nat \ {0} /\ ScheduleLimit \in Nat \ {0}
    /\ Tagged \subseteq Versions /\ None \notin Versions \cup Nat \cup Checkers
    /\ Links \in Seq(STRING \ {Start}) /\ IsFiniteSet(TrustedSources)

Open == {"queued", "running"}
Closed == {"completed", "partial", "failed", "dry_run_completed"}

VARIABLES
    sourceClock,    \* utc_now
    source,         \* [TrustedSources -> SourceRow]: trusted_sources
    check,          \* [Checks -> CheckRow]: source_check_runs, with their usage rows
    checker,        \* [Checkers -> ...]: where a worker is
    plan,           \* the sources the scheduler has still to queue, with their due times
    found,          \* [TrustedSources -> Seq(Candidate)]: candidate_documents, oldest first
    fetches,        \* history, number of fetches
    recorded        \* history, [TrustedSources -> number of the fetch recorded last]

sourceVars == <<sourceClock, source, check, checker, plan, found, fetches, recorded>>

SourceRow == [known : BOOLEAN, kind : {"single_page", "list_page"}, enabled : BOOLEAN,
              created : SourceTimes,
              checked : SourceTimes \cup {None},      \* last_checked_at
              failures : 0 .. CheckLimit,             \* consecutive_failures
              tag : Versions \cup {None},             \* last_etag, last_modified
              body : Versions \cup {None}]            \* last_content_hash
CheckRow == [state : {"absent"} \cup Open \cup Closed, source : TrustedSources \cup {None},
             dry : BOOLEAN,
             due : SourceTimes \cup {None},     \* scheduled_for; None if queued by hand
             until : Nat \cup {None},           \* leased_until
             by : Checkers \cup {None}]         \* history, the worker that finished it
CandidateRow == [url : Urls, body : Versions, tag : Versions \cup {None}]

NoAnswer == [kind |-> "none"]
Resting == [at |-> "idle", check |-> None, until |-> None, tag |-> None, body |-> None,
            answer |-> NoAnswer, no |-> 0]

SourceInit ==
    /\ sourceClock = 0
    /\ source \in [TrustedSources ->
            {[known |-> FALSE, kind |-> k, enabled |-> FALSE, created |-> 0, checked |-> None,
              failures |-> 0, tag |-> None, body |-> None] : k \in {"single_page", "list_page"}}]
    /\ check = [c \in Checks |-> [state |-> "absent", source |-> None, dry |-> FALSE,
                                  due |-> None, until |-> None, by |-> None]]
    /\ checker = [w \in Checkers |-> Resting]
    /\ plan = <<>>
    /\ found = [s \in TrustedSources |-> <<>>]
    /\ fetches = 0
    /\ recorded = [s \in TrustedSources |-> 0]

-----------------------------------------------------------------------------
(* Administrators: sources                                                  *)

CreateSource(s) ==
    /\ ~source[s].known
    /\ source' = [source EXCEPT ![s] = [@ EXCEPT !.known = TRUE, !.enabled = TRUE,
                                                 !.created = sourceClock]]
    /\ UNCHANGED <<sourceClock, check, checker, plan, found, fetches, recorded>>

SwitchSource(s) ==
    /\ source[s].known
    /\ source' = [source EXCEPT ![s].enabled = ~@]
    /\ UNCHANGED <<sourceClock, check, checker, plan, found, fetches, recorded>>

(* Another list_path_prefix: what is known of the start page is forgotten.   *)
ChangePrefix(s) ==
    /\ source[s].known /\ source[s].kind = "list_page"
    /\ source' = [source EXCEPT ![s] = [@ EXCEPT !.tag = None, !.body = None]]
    /\ UNCHANGED <<sourceClock, check, checker, plan, found, fetches, recorded>>

-----------------------------------------------------------------------------
(* Queueing                                                                 *)

IsOpen(c) == check[c].state \in Open
(* Mutant: a check that is running does not stand in the way of another.     *)
QueuedCheck(s) == \E c \in Checks : check[c].source = s /\ check[c].state = "queued"
ActiveCheck(s) == \E c \in Checks : check[c].source = s /\ IsOpen(c)

(* A new row, unless the partial unique index over open runs or the          *)
(* idempotency key, which scheduled runs of one due time share, is taken.    *)
QueueCheck(s, isDry, due) ==
    IF \/ ActiveCheck(s)
       \/ due # None /\ \E c \in Checks : check[c].source = s /\ check[c].due = due
    THEN UNCHANGED check
    ELSE \E c \in Checks :
            /\ check[c].state = "absent" /\ \A d \in 1 .. c - 1 : check[d].state # "absent"
            /\ check' = [check EXCEPT ![c] = [@ EXCEPT !.state = "queued", !.source = s,
                                                       !.dry = isDry, !.due = due]]

QueueByHand(s, isDry) ==
    /\ source[s].known /\ source[s].enabled
    /\ ~ActiveCheck(s)
    /\ QueueCheck(s, isDry, None)
    /\ UNCHANGED <<sourceClock, source, checker, plan, found, fetches, recorded>>

(* _source_due_at, with the backoff of a source that keeps failing.          *)
Multiplier(n) == IF 2 ^ n < BackoffLimit THEN 2 ^ n ELSE BackoffLimit
DueAt(s) ==
    IF source[s].checked = None THEN source[s].created
    ELSE source[s].checked + Frequency * Multiplier(source[s].failures)

IsDue(s) ==
    /\ source[s].known /\ source[s].enabled /\ ~ActiveCheck(s)
    /\ DueAt(s) <= sourceClock
DueSources == {s \in TrustedSources : IsDue(s)}

(* The scheduler reads which sources are due, earliest first ...             *)
PlanChecks ==
    /\ plan = <<>> /\ DueSources # {}
    /\ \E order \in SetToSeqs(DueSources) :
          /\ \A i, j \in DOMAIN order : i < j => DueAt(order[i]) <= DueAt(order[j])
          /\ plan' = LET n == IF Len(order) < ScheduleLimit THEN Len(order) ELSE ScheduleLimit
                     IN  [i \in 1 .. n |-> <<order[i], DueAt(order[i])>>]
    /\ UNCHANGED <<sourceClock, source, check, checker, found, fetches, recorded>>

(* ... and queues them one by one, each in a transaction of its own.  A      *)
(* source that was switched off meanwhile ends the scheduler.                *)
QueuePlanned ==
    /\ plan # <<>>
    /\ IF source[Head(plan)[1]].enabled
       THEN /\ QueueCheck(Head(plan)[1], FALSE, Head(plan)[2])
            /\ plan' = Tail(plan)
       ELSE plan' = <<>> /\ UNCHANGED check
    /\ UNCHANGED <<sourceClock, source, checker, found, fetches, recorded>>

-----------------------------------------------------------------------------
(* Workers                                                                  *)

Leasable(c) ==
    /\ source[check[c].source].enabled
    /\ \/ check[c].state = "queued"
       \/ check[c].state = "running" /\ check[c].until <= sourceClock

(* _lease_next_run: the oldest check that is queued, or whose lease ran out. *)
LeaseCheck(w) ==
    /\ checker[w].at = "idle"
    /\ \E c \in Checks :
          /\ IsOpen(c) /\ Leasable(c)
          /\ \A d \in 1 .. c - 1 : ~(IsOpen(d) /\ Leasable(d))
          /\ LET until == sourceClock + CheckLease IN
             /\ check' = [check EXCEPT ![c] = [@ EXCEPT !.state = "running", !.until = until]]
             /\ checker' = [checker EXCEPT ![w] =
                                [Resting EXCEPT !.at = "leased", !.check = c, !.until = until]]
    /\ UNCHANGED <<sourceClock, source, plan, found, fetches, recorded>>

ClosedCheck(c, w, state) ==
    [check EXCEPT ![c] = [@ EXCEPT !.state = state, !.until = None, !.by = w]]

(* A dry run ends without a fetch.  The worker's copy of the row still says  *)
(* running, whoever holds the lease now; only the key of the usage row,      *)
(* unique per check, makes the transaction of a second worker fail.          *)
CompleteDryRun(w) ==
    LET c == checker[w].check IN
    /\ checker[w].at = "leased" /\ check[c].dry
    /\ IF check[c].state \in Closed THEN UNCHANGED check
       ELSE check' = ClosedCheck(c, w, "dry_run_completed")
    /\ checker' = [checker EXCEPT ![w] = Resting]
    /\ UNCHANGED <<sourceClock, source, plan, found, fetches, recorded>>

(* The candidate a URL is compared with: its newest.                         *)
LatestOf(docs, u) == {i \in DOMAIN docs : docs[i].url = u /\
                                          \A j \in DOMAIN docs : docs[j].url = u => j <= i}

(* _latest_candidate_state: the validators sent with each URL; those of the  *)
(* start page come from the source, also where it is a document itself.      *)
ValidatorFor(s, u) ==
    IF u = Start THEN source[s].tag
    ELSE IF LatestOf(found[s], u) = {} THEN None
    ELSE found[s][CHOOSE i \in LatestOf(found[s], u) : TRUE].tag

TagOf(v) == IF v \in Tagged THEN v ELSE None
Unmodified(s, u, v) == v \in Tagged /\ v = ValidatorFor(s, u)

(* What a fetch of a page may bring: its content or, for the validator it    *)
(* was sent, "unchanged"; "failed" is an error, a 404 among them.            *)
PageAnswers(s, u) ==
    {"failed"} \cup {IF Unmodified(s, u, v) THEN "unchanged" ELSE v : v \in Versions}

Cut == "cut"        \* not asked for any more: request_limit_exceeded
(* The links are fetched in order until the requests are used up.            *)
LinkAnswers(s) ==
    {f \in [LinkSet -> UNION {PageAnswers(s, u) : u \in LinkSet} \cup {Cut}] :
        /\ \A u \in LinkSet : f[u] = Cut \/ f[u] \in PageAnswers(s, u)
        /\ \A i, j \in DOMAIN Links : i < j /\ f[Links[i]] = Cut => f[Links[j]] = Cut}

(* TrustedSourceFetcher.check: a start page that is unchanged ends the check *)
(* before its links are looked at.                                           *)
DocumentAnswers(s, v) ==
    IF source[s].kind = "single_page" THEN {[u \in {Start} |-> v]} ELSE LinkAnswers(s)
FetchAnswers(s) ==
    {[kind |-> "error"]} \cup
    UNION {IF Unmodified(s, Start, v) THEN {[kind |-> "unchanged"]}
           ELSE {[kind |-> "pages", start |-> v, content |-> f] : f \in DocumentAnswers(s, v)} :
           v \in Versions}

(* The source is loaded, the candidates are read, the pages are fetched.     *)
FetchSource(w) ==
    LET s == check[checker[w].check].source IN
    /\ checker[w].at = "leased" /\ ~check[checker[w].check].dry
    /\ fetches < FetchLimit
    /\ fetches' = fetches + 1
    /\ \E answer \in FetchAnswers(s) :
          checker' = [checker EXCEPT ![w] =
              [@ EXCEPT !.at = IF answer.kind = "error" THEN "failed" ELSE "answered",
                        !.tag = source[s].tag, !.body = source[s].body,
                        !.answer = answer, !.no = fetches']]
    /\ UNCHANGED <<sourceClock, source, check, plan, found, recorded>>

(* External calls are switched off: the check fails without a fetch, by the  *)
(* clock of the moment it was leased.                                        *)
CallsDisabled(w) ==
    /\ checker[w].at = "leased" /\ ~check[checker[w].check].dry
    /\ checker' = [checker EXCEPT ![w].at = "disabled"]
    /\ UNCHANGED <<sourceClock, source, check, plan, found, fetches, recorded>>

(* Mutant: the worker does not compare the lease.                            *)
StillRunning(w, now) == check[checker[w].check].state = "running"
(* _load_locked_run_and_source: the check is still leased, to this worker.   *)
HoldsLease(w, now) ==
    LET c == checker[w].check IN
    /\ check[c].state = "running"
    /\ check[c].until = checker[w].until
    /\ check[c].until > now

(* The worker writes an attribute of the source if it differs from the copy  *)
(* it loaded before the fetch.                                               *)
Written(stored, loaded, new) == IF new = loaded THEN stored ELSE new

(* Documents in the order they were fetched, each against what is known by   *)
(* then: unchanged, content known from elsewhere, new, or changed.           *)
RecordPage(docs, u, answer) ==
    LET latest == LatestOf(docs, u)
        bodies == {docs[i].body : i \in DOMAIN docs}
        Refreshed(d) == [d EXCEPT !.tag = IF TagOf(answer) # None THEN TagOf(answer) ELSE d.tag]
    IN  IF answer \notin Versions THEN docs
        ELSE IF \E i \in latest : docs[i].body = answer
        THEN [i \in DOMAIN docs |-> IF i \in latest THEN Refreshed(docs[i]) ELSE docs[i]]
        ELSE IF answer \in bodies THEN docs
        ELSE Append(docs, [url |-> u, body |-> answer, tag |-> TagOf(answer)])

RecordPages(docs, answer) ==
    LET Step(acc, u) == RecordPage(acc, u, answer.content[u])
    IN  FoldLeft(Step, docs, IF Start \in DOMAIN answer.content THEN <<Start>> ELSE Links)

Incomplete(answer) ==
    answer.kind = "pages" /\ \E u \in DOMAIN answer.content : answer.content[u] \in {Cut, "failed"}

LeaseLost(w) ==
    /\ checker' = [checker EXCEPT ![w] = Resting]
    /\ UNCHANGED <<check, source, found, recorded>>

(* _apply_fetch_result *)
ApplyFetchResult(w) ==
    LET c == checker[w].check  s == check[c].source  answer == checker[w].answer
        start == IF answer.kind = "pages" THEN answer.start ELSE checker[w].body
        tag == IF answer.kind = "pages" /\ TagOf(start) # None THEN TagOf(start)
               ELSE checker[w].tag
    IN
    /\ checker[w].at = "answered"
    /\ IF ~HoldsLease(w, sourceClock) THEN LeaseLost(w)
       ELSE /\ found' = IF answer.kind = "pages"
                        THEN [found EXCEPT ![s] = RecordPages(@, answer)] ELSE found
            /\ check' = ClosedCheck(c, w, IF Incomplete(answer) THEN "partial" ELSE "completed")
            /\ source' = [source EXCEPT ![s] = [@ EXCEPT
                    !.checked = sourceClock, !.failures = 0,
                    !.tag = Written(source[s].tag, checker[w].tag, tag),
                    !.body = Written(source[s].body, checker[w].body, start)]]
            /\ recorded' = [recorded EXCEPT ![s] = checker[w].no]
            /\ checker' = [checker EXCEPT ![w] = Resting]
    /\ UNCHANGED <<sourceClock, plan, fetches>>

(* _record_fetch_failure; without a fetch, by the clock of the lease.        *)
RecordFailure(w) ==
    LET c == checker[w].check  s == check[c].source
        fetched == checker[w].at = "failed"
        now == IF fetched THEN sourceClock ELSE checker[w].until - CheckLease
    IN
    /\ checker[w].at \in {"failed", "disabled"}
    /\ IF ~HoldsLease(w, now) THEN LeaseLost(w)
       ELSE /\ check' = ClosedCheck(c, w, "failed")
            /\ source' = [source EXCEPT ![s] = [@ EXCEPT !.checked = now,
                                                         !.failures = @ + 1]]
            /\ recorded' = IF fetched THEN [recorded EXCEPT ![s] = checker[w].no]
                           ELSE recorded
            /\ checker' = [checker EXCEPT ![w] = Resting]
            /\ UNCHANGED found
    /\ UNCHANGED <<sourceClock, plan, fetches>>

(* The process dies; its lease runs out in time.                             *)
CheckerCrash(w) ==
    /\ checker[w].at # "idle"
    /\ checker' = [checker EXCEPT ![w] = Resting]
    /\ UNCHANGED <<sourceClock, source, check, plan, found, fetches, recorded>>

-----------------------------------------------------------------------------
SourceTick ==
    /\ sourceClock < SourceClockEnd
    /\ sourceClock' = sourceClock + 1
    /\ UNCHANGED <<source, check, checker, plan, found, fetches, recorded>>

CheckerStep(w) ==
    \/ LeaseCheck(w) \/ CompleteDryRun(w) \/ FetchSource(w) \/ CallsDisabled(w)
    \/ ApplyFetchResult(w) \/ RecordFailure(w)

SourceNext ==
    \/ \E s \in TrustedSources :
          \/ CreateSource(s) \/ SwitchSource(s) \/ ChangePrefix(s)
          \/ \E isDry \in BOOLEAN : QueueByHand(s, isDry)
    \/ PlanChecks \/ QueuePlanned
    \/ \E w \in Checkers : CheckerStep(w) \/ CheckerCrash(w)
    \/ SourceTick

SourceSpec == SourceInit /\ [][SourceNext]_sourceVars

-----------------------------------------------------------------------------
(* What must hold                                                           *)

SourceTypeOK ==
    /\ sourceClock \in SourceTimes /\ fetches \in 0 .. FetchLimit
    /\ source \in [TrustedSources -> SourceRow]
    /\ check \in [Checks -> CheckRow]
    /\ \A w \in Checkers : checker[w].at \in {"idle", "leased", "disabled", "failed", "answered"}
    /\ \A s \in TrustedSources : found[s] \in Seq(CandidateRow)
    /\ recorded \in [TrustedSources -> 0 .. FetchLimit]

(* What a source is known to hold never goes back to an earlier fetch: a      *)
(* worker that was slow, and whose check another worker has taken over or     *)
(* finished, does not record its older answer over the newer one.             *)
(* (_load_locked_run_and_source, the index over open runs)                   *)
AnswersInOrder == [][\A s \in TrustedSources : recorded'[s] >= recorded[s]]_sourceVars

(* Every check is leased, and finished once, by the worker that holds it; a   *)
(* dry run may be finished by one that lost it.                               *)
CheckLeases == INSTANCE LeasedJob WITH
    Tasks <- Checks, Holders <- Checkers, Nobody <- None,
    phase <- [c \in Checks |-> IF check[c].state = "absent" THEN "absent"
                               ELSE IF IsOpen(c) THEN "open" ELSE "closed"],
    holding <- [c \in Checks |->
        {w \in Checkers : IsOpen(c) /\ checker[w].check = c /\ checker[w].until = check[c].until}],
    guarded <- [c \in Checks |-> ~check[c].dry],
    finisher <- [c \in Checks |-> check[c].by]
ChecksAreLeased == CheckLeases!LeasedSpec
=============================================================================
