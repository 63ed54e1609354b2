--------------------------- MODULE ResearchQueue ---------------------------
(***************************************************************************)
(* What a research job finds and reads: the searches of its topics, the      *)
(* queue of candidate pages, the extra searches when pages cannot be read,    *)
(* and what is reported of each topic at the end.                             *)
(* (web_research_service.py, research_plan.py, research_completion.py,        *)
(* research_coverage.py, research_outcome.py)                                 *)
(*                                                                            *)
(* One worker step is one action; what may come between the calls of a step   *)
(* is in WebResearchJob.  A page is a number, the best score first.  Its      *)
(* topic is what its title announces, and what its body is about.             *)
(***************************************************************************)
EXTENDS Integers, Sequences, FiniteSets, SequencesExt

CONSTANTS
    CandidateMax,   \* pages are 1 .. CandidateMax
    GroupMax,       \* search groups, each of one topic
    TopicOf,        \* [Pages -> 0 .. GroupMax]: _event_classification, 0 for none
    Directory,      \* pages that only lead to others (directory_page)
    Doubtful,       \* pages found by a title that does not name the company (identity_pending)
    TitleOf,        \* [Pages -> title]: pages may share one
    Denied,         \* pages of one origin whose robots rules forbid to read them
    AnswerMax,      \* pages of one answer
    QueueMax,       \* max_candidate_urls
    DocumentMax,    \* max_documents_per_job
    SearchCallMax,  \* max_search_calls_per_job
    FetchCallMax    \* max_fetch_requests_per_job

ASSUME QueueAssumption ==
    /\ CandidateMax \in Nat /\ GroupMax \in Nat \ {0}
    /\ TopicOf \in [1 .. CandidateMax -> 0 .. GroupMax]
    /\ Directory \subseteq 1 .. CandidateMax /\ Doubtful \subseteq 1 .. CandidateMax
    /\ Denied \subseteq 1 .. CandidateMax
    /\ {AnswerMax, QueueMax, DocumentMax, SearchCallMax, FetchCallMax} \subseteq Nat

VARIABLES
    strategy,   \* "topics": planned, full scope; "short": incremental; "legacy": watchlist jobs
    stage,      \* current_stage: [at, of], the group of a search or a fallback
    group,      \* search_groups: [status, primary, fallback, found]
    heard,      \* [Groups -> the primary's stored answer: [known, ok, pages]]
    queue,      \* candidates
    index,      \* candidate_index
    kinds,      \* [Pages -> groups that found it] (query_kinds)
    shelved,    \* deferred_candidates
    slotted,    \* candidates with a scheduling_reason
    body,       \* [Pages -> what became of the reading] (documents)
    searches,   \* stats.search_calls
    fetches,    \* stats.fetch_calls
    recovery,   \* source_recovery: [status, page]
    followUp,   \* gap_follow_up: [status, page]
    stop,       \* stop_reason
    found       \* history, the candidates any search of the job has returned

list == <<queue, index, kinds, shelved, slotted>>
queueVars == <<strategy, stage, group, heard, list, body, searches, fetches, recovery,
               followUp, stop, found>>

Pages == 1 .. CandidateMax
Groups == 1 .. GroupMax
At(where) == [at |-> where, of |-> 0]
Planned == strategy = "topics"
Incremental == strategy # "legacy"
Unheard == [known |-> FALSE, ok |-> FALSE, pages |-> {}]
NotAsked == [status |-> "not_requested", page |-> 0]

(* _initial_coverage                                                         *)
QueueInit ==
    /\ strategy \in {"topics", "short", "legacy"}
    /\ stage = [at |-> "search", of |-> 1]
    /\ group = [g \in Groups |-> [status |-> "pending", primary |-> "none",
                                  fallback |-> "none", found |-> FALSE]]
    /\ heard = [g \in Groups |-> Unheard]
    /\ queue = <<>> /\ index = 0 /\ kinds = [p \in Pages |-> {}]
    /\ shelved = {} /\ slotted = {} /\ body = [p \in Pages |-> "none"]
    /\ searches = 0 /\ fetches = 0
    /\ recovery = NotAsked /\ followUp = NotAsked
    /\ stop = "none" /\ found = {}

-----------------------------------------------------------------------------
(* The members of S in the order that a set of pairs says.                     *)
Sorted(S, earlier) ==
    [k \in 1 .. Cardinality(S) |->
        CHOOSE x \in S : Cardinality({y \in S : <<y, x>> \in earlier}) = k - 1]
(* What of s is in P, as it is ordered in s.                                  *)
Only(s, P) ==
    LET places == {i \in DOMAIN s : s[i] \in P}
        order == Sorted(places, {e \in places \X places : e[1] < e[2]})
    IN  [k \in 1 .. Cardinality(places) |-> s[order[k]]]

-----------------------------------------------------------------------------
(* order_candidates: topics take turns, the one with the fewest readable      *)
(* pages first; then pages of no topic; a repeated title and all but one page  *)
(* of doubtful identity get a reason to wait.                                  *)
Obtained == {p \in Pages : body[p] \in {"eligible", "checked", "internal"}}
Readable(g) == {p \in Pages : body[p] = "eligible" /\ TopicOf[p] = g}
Waits(s) ==
    {s[i] : i \in {j \in DOMAIN s :
        \/ s[j] \in slotted
        \/ \E k \in 1 .. j - 1 : TitleOf[s[k]] = TitleOf[s[j]]
        \/ s[j] \in Doubtful /\ \E k \in 1 .. j - 1 : s[k] \in Doubtful}}
TakesTurn(s, p) == TopicOf[p] # 0 /\ p \notin Directory \cup Waits(s)
TurnOf(g) == Cardinality({h \in Groups :
    \/ Cardinality(Readable(h)) < Cardinality(Readable(g))
    \/ (Cardinality(Readable(h)) = Cardinality(Readable(g)) /\ h < g)})
Round(s, i) ==
    Cardinality({j \in 1 .. i - 1 : TopicOf[s[j]] = TopicOf[s[i]] /\ TakesTurn(s, s[j])})
(* The place of the page at i: by turns, else by reason and kind of page.     *)
Place(s, i) ==
    IF TakesTurn(s, s[i]) THEN <<0, Round(s, i), TurnOf(TopicOf[s[i]]), i>>
    ELSE <<1, IF s[i] \in Waits(s) THEN 1 ELSE 0, IF s[i] \in Directory THEN 1 ELSE 0, i>>
Before(s, i, j) ==
    \E n \in 1 .. 4 : /\ Place(s, i)[n] < Place(s, j)[n]
                      /\ \A m \in 1 .. n - 1 : Place(s, i)[m] = Place(s, j)[m]
Ordered(s) ==
    LET order == Sorted(DOMAIN s, {e \in (DOMAIN s) \X (DOMAIN s) : Before(s, e[1], e[2])})
    IN  [k \in DOMAIN s |-> s[order[k]]]

(* _result_score: the short strategy reads static pages last.                 *)
Late(p) == strategy = "short" /\ p \in Directory
ScoredBefore(p, q) == IF Late(p) <=> Late(q) THEN p < q ELSE Late(q)
ByScore(P) == Sorted(P, {e \in P \X P : ScoredBefore(e[1], e[2])})

Done == SubSeq(queue, 1, index)
Ahead == SubSeq(queue, index + 1, Len(queue))
Upto(s, n) == SubSeq(s, 1, IF n < Len(s) THEN (IF n < 0 THEN 0 ELSE n) ELSE Len(s))
BeyondByOne(s, n) == ToSet(s) \ ToSet(Upto(s, n + 1))
Beyond(s, n) == ToSet(s) \ ToSet(Upto(s, n))
-----------------------------------------------------------------------------
(* _process_search_group: the primary's answer, from the store of answers if   *)
(* it has been heard; if it names too few pages, the fallback's; else the      *)
(* fallback's stored answer, if there is one.  An answer names few pages.      *)
Answers == {P \in SUBSET Pages : Cardinality(P) <= AnswerMax}
Said(g) == IF heard[g].known THEN {heard[g]}
           ELSE [known : {TRUE}, ok : {TRUE}, pages : Answers]
                \cup [known : {TRUE}, ok : {FALSE}, pages : {{}}]
CallsFor(g) == {c \in IF heard[g].known THEN {0} ELSE {0, 1} : searches + c <= SearchCallMax}
TooFew(answer) == answer.pages \subseteq Doubtful
Outcome(answer) == IF answer.ok THEN "completed" ELSE "failed"

(* Candidates beyond the queue's length are recorded by a planned job only.   *)
Merge(g, P) ==
    LET all == ByScore(ToSet(queue) \cup P)
        kept == IF Planned THEN Only(Ordered(all), Pages \ Waits(all)) ELSE all
    IN  /\ queue' = Upto(kept, QueueMax)
        /\ shelved' = IF Planned THEN shelved \cup Waits(all) \cup Beyond(kept, QueueMax)
                      ELSE shelved
        /\ kinds' = [p \in Pages |->
              IF p \notin P THEN kinds[p]
              ELSE {g} \cup IF p \in ToSet(queue) THEN kinds[p] ELSE {}]
        /\ UNCHANGED <<index, slotted>>

NextSearch(g) ==
    LET left == {h \in Groups \ {g} : group[h].status = "pending"}
    IN  IF left = {} THEN At("fetch")
        ELSE [at |-> "search", of |-> CHOOSE h \in left : \A i \in left : h <= i]

Searched(g, primary, fallback, P) ==
    /\ group' = [group EXCEPT ![g] =
            [status |-> IF {primary, fallback} \cap {"completed", "cache_fused"} # {}
                        THEN "completed" ELSE "failed",
             primary |-> primary, fallback |-> fallback, found |-> P # {}]]
    /\ Merge(g, P) /\ found' = found \cup P
    /\ stage' = NextSearch(g)
    /\ heard' = [heard EXCEPT ![g] = Unheard]
    /\ UNCHANGED <<strategy, body, fetches, recovery, followUp, stop>>

SearchGroup ==
    /\ stage.at = "search" /\ ~(Planned /\ searches >= SearchCallMax)
    /\ LET g == stage.of IN
       \E answer \in Said(g), calls \in CallsFor(g), more \in 0 .. 1, P \in Answers :
          \/ /\ TooFew(answer) /\ searches + calls < SearchCallMax
             /\ searches' = searches + calls + more
             /\ \/ Searched(g, Outcome(answer), "completed", answer.pages \cup P)
                \/ P = {} /\ Searched(g, Outcome(answer), "failed", answer.pages)
          \/ /\ TooFew(answer) /\ searches + calls >= SearchCallMax /\ P = {}
             /\ searches' = searches + calls
             /\ Searched(g, Outcome(answer), "budget_deferred", answer.pages)
          \/ /\ ~TooFew(answer) /\ searches' = searches + calls
             /\ \/ P = {} /\ Searched(g, "completed", "not_called", answer.pages)
                \/ Searched(g, "completed", "cache_fused", answer.pages \cup P)

(* A refresh of all topics stops searching when its searches are used up.     *)
DeferredGroups ==
    [g \in Groups |-> IF group[g].status = "pending"
                      THEN [group[g] EXCEPT !.status = "budget_deferred"] ELSE group[g]]
SearchesUsedUp ==
    /\ stage.at = "search" /\ Planned /\ searches >= SearchCallMax
    /\ group' = DeferredGroups /\ stage' = At("fetch")
    /\ UNCHANGED <<strategy, heard, list, body, searches, fetches, recovery, followUp, stop,
                   found>>

-----------------------------------------------------------------------------
(* _readability_fallback_group: a group whose fallback was not needed, and    *)
(* whose pages turn out not to be readable.  0 if there is none.              *)
MayFallBack(g) ==
    /\ group[g].fallback = "not_called"
    /\ IF Planned
       THEN /\ Readable(g) = {}
            /\ \A p \in ToSet(queue) \ Directory : TopicOf[p] = g => body[p] # "none"
       ELSE /\ \E p \in ToSet(queue) : g \in kinds[p]
            /\ \A p \in ToSet(queue) : g \in kinds[p] => body[p] = "failed"
DocumentLimit == IF Planned THEN QueueMax ELSE DocumentMax
Enough == Cardinality(Obtained) >= DocumentLimit
FetchesUsedUp == fetches >= FetchCallMax
FallbackGroup ==
    LET able == {g \in Groups : MayFallBack(g)} IN
    IF \/ ~Incremental \/ searches >= SearchCallMax \/ FetchesUsedUp \/ Enough \/ able = {}
       \/ (IF Planned THEN index ELSE Len(queue)) >= QueueMax
    THEN 0 ELSE CHOOSE g \in able : \A h \in able : g <= h

NothingToRead == FallbackGroup # 0 \/ index >= Len(queue) \/ Enough \/ FetchesUsedUp
Reorder == IF Planned THEN /\ queue' = Done \o Ordered(Ahead)
                           /\ slotted' = slotted \cup Waits(Ahead)
           ELSE UNCHANGED <<queue, slotted>>
SkipIfOpen(extra) ==
    IF extra.status \in {"not_requested", "pending"} THEN [extra EXCEPT !.status = "skipped"]
    ELSE extra

(* _fetch_candidate, when nothing is to be read.                              *)
LeaveFetch ==
    /\ stage.at = "fetch" /\ Incremental /\ NothingToRead
    /\ Reorder
    /\ stop' = IF ~Planned \/ FallbackGroup # 0 THEN stop
               ELSE IF FetchesUsedUp THEN "http" ELSE IF Enough THEN "documents" ELSE "exhausted"
    /\ recovery' = SkipIfOpen(recovery) /\ followUp' = SkipIfOpen(followUp)
    /\ stage' = IF FallbackGroup # 0 THEN [at |-> "fallback", of |-> FallbackGroup]
                ELSE At("finalize")
    /\ UNCHANGED <<strategy, group, heard, index, kinds, shelved, body, searches, fetches, found>>

(* The same for other jobs: one search for a source that forbids reading, or  *)
(* else one for an event that no page has shown (_prepare_gap_follow_up).      *)
MaySearchMore == index >= Len(queue) /\ ~Enough /\ ~FetchesUsedUp /\ searches < SearchCallMax
Gaps == {p \in ToSet(queue) : body[p] \in {"failed", "checked", "internal"} /\ TopicOf[p] # 0
                              /\ Readable(TopicOf[p]) = {}}
RecoveryTried == recovery.status \in {"running", "completed", "failed"}    \* attempts = 1
Targets == IF followUp.status # "not_requested" THEN {followUp}
           ELSE {[status |-> "skipped", page |-> 0]}
                \cup IF RecoveryTried THEN {} ELSE [status : {"pending"}, page : Gaps]
LeaveFetchLegacy ==
    /\ stage.at = "fetch" /\ ~Incremental /\ NothingToRead
    /\ \/ /\ recovery.status = "pending" /\ MaySearchMore
          /\ stage' = At("recovery") /\ UNCHANGED <<recovery, followUp>>
       \/ /\ ~(recovery.status = "pending" /\ MaySearchMore)
          /\ recovery' = IF recovery.status = "pending" THEN SkipIfOpen(recovery) ELSE recovery
          /\ \E f \in Targets :
                IF f.status = "pending" /\ MaySearchMore
                THEN followUp' = f /\ stage' = At("followUp")
                ELSE /\ followUp' = IF f.status = "pending" THEN SkipIfOpen(f) ELSE f
                     /\ stage' = At("finalize")
    /\ UNCHANGED <<strategy, group, heard, list, body, searches, fetches, stop, found>>

(* _content_quality_decision: one passage must name the company and tell of a  *)
(* change, which is then the topic of the page.                                *)
MayPass(p) == TopicOf[p] # 0
(* _candidate_event: what a text that was read is good for.                    *)
Judged(p) == {"checked", "internal"} \cup IF MayPass(p) THEN {"eligible"} ELSE {}
ReadResults(p) == {"failed"} \cup IF p \in Denied THEN {} ELSE Judged(p)
(* A page that its origin forbids to read, and whose title tells of a change.  *)
AsksRecovery(p) == p \in Denied /\ recovery = NotAsked /\ TopicOf[p] # 0

(* _fetch_candidate: the page is read, from the store of documents or with as  *)
(* many requests as are left.                                                  *)
ReadNext ==
    /\ stage.at = "fetch" /\ ~NothingToRead
    /\ Reorder
    /\ LET p == queue'[index + 1] IN
       /\ \E result \in ReadResults(p) : body' = [body EXCEPT ![p] = result]
       /\ recovery' = IF AsksRecovery(p) THEN [status |-> "pending", page |-> p] ELSE recovery
    /\ \E calls \in 0 .. FetchCallMax - fetches : fetches' = fetches + calls
    /\ index' = index + 1
    /\ UNCHANGED <<strategy, stage, group, heard, kinds, shelved, searches, followUp, stop, found>>

-----------------------------------------------------------------------------
(* _process_readability_fallback: pages read stay in front; new pages and      *)
(* those found again come next.  Pages a known rule forbids are left out.      *)
RulesKnown == \E p \in Denied : body[p] # "none"
Refilled(g, P) ==
    LET new == ByScore(P \ (ToSet(queue) \cup (IF RulesKnown THEN Denied ELSE {})))
        again == Only(Ahead, P)
        rest == Only(Ahead, Pages \ P)
    IN  (IF Planned THEN new ELSE Upto(new, QueueMax - Len(queue))) \o again \o rest

FallBack(g, P, state) ==
    LET pending == Refilled(g, P)
        added == ToSet(pending) \ ToSet(queue)
        ordered == IF Planned THEN Upto(Ordered(pending), QueueMax - index)
                   ELSE Only(pending, {p \in Pages : ~Late(p)})
                        \o Only(pending, {p \in Pages : Late(p)})
    IN  /\ queue' = Done \o ordered
        /\ slotted' = IF Planned THEN slotted \cup Waits(pending) ELSE slotted
        /\ shelved' = IF Planned THEN shelved \cup Beyond(Ordered(pending), QueueMax - index)
                      ELSE shelved
        /\ kinds' = [p \in Pages |-> IF p \in added THEN {g}
                                     ELSE IF p \in P /\ p \in ToSet(Ahead) THEN kinds[p] \cup {g}
                                     ELSE kinds[p]]
        /\ group' = [group EXCEPT ![g].fallback = state, ![g].found = @ \/ added # {}]
ReadFallback ==
    /\ stage.at = "fallback"
    /\ \E calls \in 0 .. 1, P \in Answers :
          /\ searches + calls <= SearchCallMax /\ searches' = searches + calls
          /\ found' = found \cup P
          /\ \/ FallBack(stage.of, P, "completed")
             \/ P = {} /\ FallBack(stage.of, P, "failed_late")
    /\ stage' = At("fetch")
    /\ UNCHANGED <<strategy, heard, index, body, fetches, recovery, followUp, stop>>

(* _process_source_recovery: at most one other source takes the place.         *)
AnySource(P) == ByScore(P \ {recovery.page})
OtherSource(P) == Only(ByScore(P \ {recovery.page}), Pages \ ToSet(Done))
Recover ==
    /\ stage.at = "recovery" /\ recovery.status = "pending"
    /\ \E calls \in 0 .. 1, P \in Answers :
          LET one == Upto(OtherSource(P), 1)
              rest == Only(Ahead, Pages \ ToSet(one))
          IN  /\ searches' = searches + calls /\ found' = found \cup P
              /\ \/ /\ queue' = Done \o one \o Upto(rest, QueueMax - index)
                    /\ kinds' = [p \in Pages |-> IF p \in ToSet(one) THEN {} ELSE kinds[p]]
                    /\ recovery' = [recovery EXCEPT !.status = "completed"]
                 \/ /\ P = {} /\ UNCHANGED <<queue, kinds>>
                    /\ recovery' = [recovery EXCEPT !.status = "failed"]
    /\ stage' = At("fetch")
    /\ UNCHANGED <<strategy, group, heard, index, shelved, slotted, body, fetches, followUp, stop>>

(* _process_gap_follow_up: at most one more page of the event's topic, of the  *)
(* primary or of a stored answer of the fallback.                              *)
Follow ==
    /\ stage.at = "followUp" /\ followUp.status = "pending"
    /\ \E calls \in 0 .. 1, ok \in BOOLEAN, P \in Answers :
          LET fit == {p \in P \ ({followUp.page} \cup ToSet(queue)) :
                         TopicOf[p] = TopicOf[followUp.page]}
              one == Upto(ByScore(fit), 1)
          IN  /\ searches' = searches + calls /\ found' = found \cup P
              /\ queue' = Done \o one \o Ahead
              /\ kinds' = [p \in Pages |-> IF p \in ToSet(one) THEN {} ELSE kinds[p]]
              /\ followUp' = [followUp EXCEPT !.status = IF ok \/ one # <<>> THEN "completed"
                                                         ELSE "failed"]
              /\ stage' = IF one # <<>> THEN At("fetch") ELSE At("finalize")
    /\ UNCHANGED <<strategy, group, heard, index, shelved, slotted, body, fetches, recovery, stop>>

(* The worker dies in an extra search, whose call is reconciled as lost: the   *)
(* attempt was recorded before the call and is not made again.                 *)
LoseExtraSearch ==
    /\ \/ stage.at = "recovery" /\ recovery.status = "pending"
          /\ recovery' = [recovery EXCEPT !.status = "running"] /\ UNCHANGED followUp
       \/ stage.at = "followUp" /\ followUp.status = "pending"
          /\ followUp' = [followUp EXCEPT !.status = "running"] /\ UNCHANGED recovery
    /\ searches' = searches + 1
    /\ UNCHANGED <<strategy, stage, group, heard, list, body, fetches, stop, found>>
PassExtraSearch ==
    /\ \/ stage.at = "recovery" /\ recovery.status # "pending" /\ stage' = At("fetch")
       \/ stage.at = "followUp" /\ followUp.status # "pending" /\ stage' = At("finalize")
    /\ UNCHANGED <<strategy, group, heard, list, body, searches, fetches, recovery, followUp,
                   stop, found>>

-----------------------------------------------------------------------------
(* _defer_budget: a limit refuses the step's next call.  The primary's answer  *)
(* is stored; an extra search that was not made is asked for again.            *)
CallRefused ==
    /\ \/ stage.at \in {"fallback", "recovery", "followUp"} /\ UNCHANGED <<heard, searches>>
       \/ stage.at = "fetch" /\ ~NothingToRead /\ UNCHANGED <<heard, searches>>
       \/ /\ stage.at = "search" /\ ~(Planned /\ searches >= SearchCallMax)
          /\ \/ ~heard[stage.of].known /\ UNCHANGED <<heard, searches>>
             \/ \E answer \in Said(stage.of), calls \in CallsFor(stage.of) :
                   /\ TooFew(answer) /\ searches + calls < SearchCallMax
                   /\ heard' = [heard EXCEPT ![stage.of] = answer]
                   /\ searches' = searches + calls
    /\ group' = DeferredGroups /\ stop' = "budget"
    /\ UNCHANGED <<strategy, stage, list, body, fetches, recovery, followUp, found>>

(* _finalize, also when max_elapsed_seconds have passed.                       *)
Finalize ==
    /\ \/ stage.at = "finalize" /\ UNCHANGED stop
       \/ Incremental /\ stage.at \notin {"finalize", "ended"} /\ stop' = "time"
    /\ followUp' = SkipIfOpen(followUp)
    /\ stage' = At("ended")
    /\ UNCHANGED <<strategy, group, heard, list, body, searches, fetches, recovery, found>>

QueueNext ==
    \/ SearchGroup \/ SearchesUsedUp
    \/ LeaveFetch \/ LeaveFetchLegacy \/ ReadNext
    \/ ReadFallback \/ Recover \/ Follow \/ LoseExtraSearch \/ PassExtraSearch
    \/ CallRefused \/ Finalize
QueueSpec == QueueInit /\ [][QueueNext]_queueVars

-----------------------------------------------------------------------------
(* completion_projection: how far a topic was studied.                         *)
Relevant(g, p) == TopicOf[p] = g \/ g \in kinds[p]
Urls(g) == {p \in ToSet(queue) \ Directory : Relevant(g, p)}
Documents(g) ==
    {p \in Pages : /\ body[p] # "none" /\ Relevant(g, p)
                   /\ \/ TopicOf[p] = g
                      \/ p \notin Directory
                      \/ Planned /\ p \in Obtained}
Checked(g) == {p \in Documents(g) : body[p] \in {"eligible", "checked"}}
DeferredOnly(g) == group[g].fallback = "budget_deferred"
Unfinished(g) == group[g].fallback \in {"failed", "budget_deferred"}
TopicStatus(g) ==
    CASE group[g].status = "budget_deferred" -> "budget_deferred"
      [] group[g].status = "pending" -> "not_run"
      [] group[g].status = "failed" -> "failed"
      [] group[g].status = "completed" /\ \E p \in Documents(g) : body[p] = "failed" ->
            IF Checked(g) # {} THEN "partial" ELSE "failed"
      [] OTHER ->
            IF \/ Unfinished(g) \/ ~(Urls(g) \subseteq Checked(g))
               \/ \E p \in shelved : TopicOf[p] = g
               \/ group[g].found /\ Checked(g) = {}
            THEN "partial" ELSE "completed"

(* category_coverage: what was obtained on the topic, from the same record.    *)
About(g) == {p \in Pages : body[p] # "none" /\ TopicOf[p] = g}
CategoryStatus(g) ==
    CASE (IF Planned THEN Readable(g) ELSE About(g) \cap Obtained) # {} -> "evidence_obtained"
      [] OTHER ->
         IF \E p \in About(g) \cap Denied : body[p] = "failed" THEN "blocked"
         ELSE IF \/ \E p \in About(g) : body[p] = "failed"
                 \/ group[g].primary = "failed" \/ group[g].fallback \in {"failed", "failed_late"}
         THEN "failed"
         ELSE IF (\E p \in ToSet(queue) : TopicOf[p] = g) \/ group[g].found THEN "candidates_only"
         ELSE IF group[g].status = "completed" THEN "no_records"
         ELSE IF group[g].status = "pending" THEN "not_checked" ELSE "unknown"

-----------------------------------------------------------------------------
Extra == [status : {"not_requested", "pending", "running", "completed", "failed", "skipped"},
          page : 0 .. CandidateMax]
QueueTypeOK ==
    /\ queue \in Seq(Pages) /\ index \in 0 .. Len(queue)
    /\ body \in [Pages -> {"none", "failed", "eligible", "checked", "internal"}]
    /\ searches \in 0 .. SearchCallMax /\ fetches \in 0 .. FetchCallMax
    /\ recovery \in Extra /\ followUp \in Extra
    /\ shelved \subseteq found /\ slotted \subseteq found

(* A refresh reports a topic as completed only if every page any of its         *)
(* searches returned on the topic was read, however often the queue was sorted,  *)
(* cut and refilled; except pages left out for their robots rules.  And the      *)
(* other report of the same record agrees: a topic that is complete for the user  *)
(* is not shown as failed, blocked or unchecked beside it, except that a search   *)
(* of it failed and another answered.  (order_candidates,                        *)
(* _process_readability_fallback, completion_projection and category_coverage in  *)
(* research_result)                                                             *)
CompleteMeansRead ==
    stage.at = "ended" =>
        \A g \in Groups : TopicStatus(g) = "completed" =>
            /\ Planned => \A p \in found \ (Directory \cup Denied) :
                  TopicOf[p] = g => body[p] \in {"eligible", "checked"}
            /\ \/ CategoryStatus(g) \in {"evidence_obtained", "candidates_only", "no_records"}
               \/ group[g].primary = "failed" \/ group[g].fallback = "failed_late"

(* A page that was read is never read again, however the queue changes             *)
(* (candidate_index and the prefix that all later steps keep).                     *)
ReadOnce == [][\A p \in Pages : body[p] # "none" => body'[p] = body[p]]_queueVars
=============================================================================
