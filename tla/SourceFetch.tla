---------------------------- MODULE SourceFetch ----------------------------
(***************************************************************************)
(* TrustedSourceFetcher.check (source_fetcher.py): the pages of one source   *)
(* are fetched in order, each after the robots rules of its origin, with     *)
(* retries and redirects, within one limit of requests.  What is known of    *)
(* an origin (its rules, or that it answered 429) may be handed on to the    *)
(* next fetcher of the same research job.                                    *)
(*                                                                         *)
(* One step is one call of _request_once with what its callers make of the   *)
(* result.  Downloaded bytes are not counted: a page that is too large is    *)
(* one of the unreadable ones.                                               *)
(***************************************************************************)
EXTENDS Naturals, Sequences

CONSTANTS
    Origins,
    PageLists,      \* what a check may have to fetch: sequences of origins
    RequestMax,     \* max_requests_per_run
    RetryMax,       \* retry_limit
    RedirectMax,    \* max_redirects
    FetcherLimit    \* bound: fetchers of a research job

ASSUME FetchAssumption ==
    /\ RequestMax \in Nat \ {0} /\ RetryMax \in Nat /\ RedirectMax \in Nat
    /\ FetcherLimit \in Nat
    /\ PageLists \subseteq Seq(Origins) \ {<<>>}

VARIABLES
    pages,      \* the page to fetch first, then those found in it
    advisory,   \* robots_mode and acquisition_route: the rules do not bind
    fetch,      \* where the check is
    requests,   \* request_count
    compatible, \* _tls_compatibility_hosts
    memory,     \* [Origins -> what _robots holds]
    fetchers    \* fetchers used so far

fetchVars == <<pages, advisory, fetch, requests, compatible, memory, fetchers>>

Limiting == {"limited", "waiting"}      \* 429, forever or until its retry_at
MemoryRow == [status : {"unknown", "allow", "deny", "checked"} \cup Limiting,
              allowed : SUBSET Nat]     \* the pages the rules allow
Unknown == [status |-> "unknown", allowed |-> {}]
Known(status) == [status |-> status, allowed |-> {}]

Arrived(p) == [page |-> p, stage |-> "check", hop |-> pages[p],
               attempts |-> 0, redirects |-> 0]

FetchInit ==
    /\ pages \in PageLists /\ advisory \in BOOLEAN
    /\ fetch = Arrived(1)
    /\ requests = 0 /\ compatible = {} /\ fetchers = 1
    /\ memory = [o \in Origins |-> Unknown]

Origin == pages[fetch.page]
(* Pages found in the first one are fetched without an acquisition route.    *)
Advisory == advisory /\ fetch.page = 1
Limited(o) == memory[o].status \in Limiting

Begun(stage) == [fetch EXCEPT !.stage = stage, !.hop = Origin, !.attempts = 0,
                              !.redirects = 0]
NextPage == IF fetch.page < Len(pages) THEN Arrived(fetch.page + 1)
            ELSE [fetch EXCEPT !.stage = "complete"]

(* An error ends the check if it is the first page's; a page found in it is  *)
(* a failure, and the limit of requests ends the list.                       *)
Failed(code) ==
    IF fetch.page = 1 THEN [fetch EXCEPT !.stage = "failed"]
    ELSE IF code = "request_limit_exceeded" THEN [fetch EXCEPT !.stage = "partial"]
    ELSE NextPage

(* Mutant: the acquisition route of the first page counts for all pages.      *)
DecidedByRoute(entry) ==
    IF entry.status \in Limiting THEN Failed("rate_limited")
    ELSE IF \/ entry.status = "allow"
            \/ entry.status = "checked" /\ fetch.page \in entry.allowed
            \/ advisory
    THEN Begun("body")
    ELSE Failed("robots_disallowed")
(* Where the check of the rules goes on.                                     *)
Decided(entry) ==
    IF entry.status \in Limiting THEN Failed("rate_limited")
    ELSE IF \/ entry.status = "allow"
            \/ entry.status = "checked" /\ fetch.page \in entry.allowed
            \/ Advisory
    THEN Begun("body")
    ELSE Failed("robots_disallowed")

(* The rules are remembered from an earlier page, or have to be fetched.     *)
CheckRobots ==
    /\ fetch.stage = "check"
    /\ fetch' = IF memory[Origin] = Unknown THEN Begun("robots") ELSE Decided(memory[Origin])
    /\ UNCHANGED <<pages, advisory, requests, compatible, memory, fetchers>>

(* Without the rules a check goes on where they do not bind, unless the      *)
(* error is about safety, cancellation or the budget.                        *)
Forgiven == {"timeout", "invalid_redirect", "redirect_limit_exceeded", "unreadable"}

Raised(code) ==
    IF fetch.stage = "robots" /\ Advisory /\ code \in Forgiven
    THEN /\ memory' = [memory EXCEPT ![Origin] = Known("deny")]
         /\ fetch' = Decided(Known("deny"))
    ELSE memory' = memory /\ fetch' = Failed(code)

(* What keeps _request_once from making a request.                           *)
RequestRefused ==
    /\ fetch.stage \in {"robots", "body"}
    /\ \E code \in {"rate_limited", "request_limit_exceeded", "stopped"} :
          /\ code = "rate_limited" <=> Limited(fetch.hop)
          /\ ~Limited(fetch.hop) => (code = "request_limit_exceeded" <=> requests >= RequestMax)
          /\ Raised(code)
    /\ UNCHANGED <<pages, advisory, requests, compatible, fetchers>>

(* Mutant: an origin that answered 429 is asked all the same.                 *)
MayAlwaysRequest == requests < RequestMax
MayRequest == ~Limited(fetch.hop) /\ requests < RequestMax
Requested ==
    /\ fetch.stage \in {"robots", "body"} /\ MayRequest
    /\ requests' = requests + 1
    /\ UNCHANGED <<pages, advisory, fetchers>>

Again(counted) == [fetch EXCEPT !.attempts = @ + counted]

(* The handshake fails on the curve: one more attempt for the host.          *)
CurveRejected ==
    /\ Requested
    /\ IF fetch.hop \notin compatible /\ requests' < RequestMax
       THEN /\ compatible' = compatible \cup {fetch.hop} /\ fetch' = Again(0)
            /\ UNCHANGED memory
       ELSE Raised("tls_ecpoint_error") /\ UNCHANGED compatible

(* No answer in time, or a server error: tried again, as often as allowed.   *)
TimedOut ==
    /\ Requested /\ UNCHANGED compatible
    /\ IF fetch.attempts < RetryMax THEN fetch' = Again(1) /\ UNCHANGED memory
       ELSE Raised("timeout")

(* An answer that is refused: its address, type or size is not acceptable.   *)
AnswerRefused ==
    /\ Requested /\ UNCHANGED compatible
    /\ \E code \in {"unreadable", "invalid_redirect", "unsafe"} : Raised(code)

(* A redirect within the root domain, to another origin perhaps.             *)
Redirected ==
    /\ Requested /\ UNCHANGED compatible
    /\ IF fetch.redirects < RedirectMax
       THEN /\ \E o \in Origins :
                  fetch' = [fetch EXCEPT !.hop = o, !.redirects = @ + 1, !.attempts = 0]
            /\ UNCHANGED memory
       ELSE Raised("redirect_limit_exceeded")

(* 429 is remembered for the origin that answered; where the rules were      *)
(* asked for, also for the page's own origin.                                *)
TooManyRequests ==
    /\ Requested /\ UNCHANGED compatible
    /\ \E status \in Limiting :
          memory' = [o \in Origins |->
              IF o = fetch.hop \/ (fetch.stage = "robots" /\ o = Origin)
              THEN Known(status) ELSE memory[o]]
    /\ fetch' = Failed("rate_limited")

(* Rules that could be read, a 404 (everything is allowed), or anything else *)
(* (nothing is).                                                             *)
RobotsAnswers == {[status |-> "checked", allowed |-> p] : p \in SUBSET DOMAIN pages}
                 \cup {Known("allow"), Known("deny")}
RobotsAnswered ==
    /\ fetch.stage = "robots" /\ Requested /\ UNCHANGED compatible
    /\ \E entry \in RobotsAnswers :
          /\ memory' = [memory EXCEPT ![Origin] = entry]
          /\ fetch' = Decided(entry)

(* A document, "not modified" (which ends the check on the first page) or a  *)
(* status that is an error, a server error after the last attempt included.  *)
PageAnswered ==
    /\ fetch.stage = "body" /\ Requested
    /\ \/ fetch' = NextPage
       \/ fetch.page = 1 /\ fetch' = [fetch EXCEPT !.stage = "complete"]
       \/ fetch' = Failed("http_error")
    /\ UNCHANGED <<compatible, memory>>

(* The time a 429 answer asked to wait is over.                              *)
RetryTimeCame(o) ==
    /\ memory[o].status = "waiting"
    /\ memory' = [memory EXCEPT ![o] = Unknown]
    /\ UNCHANGED <<pages, advisory, fetch, requests, compatible, fetchers>>

FetchOver == fetch.stage \in {"complete", "partial", "failed"}

(* What is handed on (normalized_robots_rule_cache): rules that are too old or  *)
(* too long are left out, a 429 never.                                         *)
Handed(forgotten) == [o \in Origins |-> IF o \in forgotten THEN Unknown ELSE memory[o]]

(* Another fetcher of the same job (bind_job_robots_cache).                  *)
NextFetcher ==
    /\ FetchOver /\ fetchers < FetcherLimit
    /\ fetchers' = fetchers + 1 /\ fetch' = Arrived(1)
    /\ requests' = 0 /\ compatible' = {}
    /\ \E forgotten \in SUBSET {o \in Origins : ~Limited(o)} : memory' = Handed(forgotten)
    /\ UNCHANGED <<pages, advisory>>

FetchNext ==
    \/ CheckRobots \/ RequestRefused \/ CurveRejected \/ TimedOut \/ AnswerRefused
    \/ Redirected \/ TooManyRequests \/ RobotsAnswered \/ PageAnswered
    \/ \E o \in Origins : RetryTimeCame(o)
    \/ NextFetcher

FetchSpec == FetchInit /\ [][FetchNext]_fetchVars

-----------------------------------------------------------------------------
FetchTypeOK ==
    /\ pages \in PageLists /\ advisory \in BOOLEAN
    /\ fetch.page \in DOMAIN pages /\ fetch.hop \in Origins
    /\ fetch.stage \in {"check", "robots", "body", "complete", "partial", "failed"}
    /\ requests \in 0 .. RequestMax /\ compatible \subseteq Origins
    /\ memory \in [Origins -> MemoryRow] /\ fetchers \in Nat

(* A request of a page keeps to what its origin has said.  An origin that     *)
(* answered 429 is left alone until its time has come, also where a redirect  *)
(* or a later page leads to it, and also by the next fetcher of the job;      *)
(* nothing learnt meanwhile makes it be forgotten.  A page is asked for only  *)
(* when its origin's rules are known and allow it, or do not bind: retries,   *)
(* forgiven errors and rules that an earlier page or an earlier fetcher has   *)
(* left behind included.  (_remember_rate_limit, _active_rate_limit,         *)
(* _robots_check; docs/25-m2-f-engineering-closure.md:68)                    *)
OriginRulesKept ==
    [][/\ requests' > requests => ~Limited(fetch.hop)
       /\ \A o \in Origins : memory[o].status = "limited" => memory'[o].status = "limited"
       /\ requests' > requests /\ fetch.stage = "body" /\ fetch.redirects = 0 =>
              LET entry == memory[Origin] IN
              \/ entry.status = "allow"
              \/ entry.status = "checked" /\ fetch.page \in entry.allowed
              \/ Advisory /\ entry # Unknown]_fetchVars
=============================================================================
