-------------------------- MODULE IdentityResearch --------------------------
(***************************************************************************)
(* Inclusion requests whose company is not in the shared catalog yet       *)
(* (identity_research.py).  A web worker takes one request at a time and    *)
(* does one bounded step: it decides from what is known, or it reserves a   *)
(* search or a fetch, dispatches it, waits for the answer without a lock    *)
(* and saves.  Meanwhile the requester cancels, an administrator decides    *)
(* from a row read without a lock, a network check fails every waiting      *)
(* request, the lease runs out and another worker comes.                    *)
(* Requests are numbered in the order of created_at.  The counts of bytes,  *)
(* the age of reused evidence and the choice between two providers are left *)
(* out; whether the platform budget grants a reservation is a choice        *)
(* (WebResearchBudget decides it).                                          *)
(***************************************************************************)
EXTENDS Integers, Sequences, FiniteSets, FiniteSetsExt

CONSTANTS
    InquiryCount,       \* requests are 1 .. InquiryCount
    Subjects,           \* pairs of a name and a credit code
    SubjectOf,          \* SubjectOf[i]: what request i asks for
    IdentityWorkers,
    Desks,              \* decisions of administrators and network checks (a bound)
    SearchMax,          \* identity_max_search_calls (at most 6)
    FetchMax,           \* identity_max_fetch_requests
    SearchAnswers,      \* bound: what a search may find, sequences of "match" and "other"
    FetchReserve,       \* robots, page and redirects: 5 in the code
    IdentityLease,      \* worker_lease_seconds, in ticks
    CoalesceWait,       \* the 30 s a request waits for an older equal one
    IdentityClockEnd    \* bound of the clock

ASSUME IdentityAssumption ==
    /\ InquiryCount \in Nat \ {0}
    /\ SubjectOf \in [1 .. InquiryCount -> Subjects]
    /\ {SearchMax, FetchMax, FetchReserve, IdentityLease, CoalesceWait} \subseteq Nat \ {0}
    /\ SearchAnswers \subseteq Seq({"match", "other"}) /\ SearchAnswers # {}
    /\ IsFiniteSet(SearchAnswers)
    /\ IdentityClockEnd \in Nat

VARIABLES
    inquiry,        \* PersonalCompanyRequest rows
    dossier,        \* IdentityResearchState.progress
    callState,      \* usage rows of the inquiry's calls, by token
    catalog,        \* what the catalog holds of a subject
    seeker,         \* the workers' local state
    desk,           \* a decision under way: the rows it read
    identityClock

identityVars ==
    <<inquiry, dossier, callState, catalog, seeker, desk, identityClock>>

Inquiries == 1 .. InquiryCount

Waiting == {"pending", "identity_queued", "identity_checking"}
Cancellable == Waiting \cup {"in_review", "needs_input", "research_queued", "cancel_requested"}
InquiryStatuses ==
    Cancellable \cup {"absent", "cancelled", "closed"}  \* closed: completed, rejected, failed

NoDossier ==
    [row |-> 0, known |-> FALSE, copied |-> FALSE, inFlight |-> FALSE, searches |-> 0,
     pages |-> <<>>, index |-> 0, lastSearch |-> 0, fetches |-> 0, finding |-> "none"]

PageMax == SearchMax * Max({Len(answer) : answer \in SearchAnswers})
Tokens == ({"search"} \X (0 .. SearchMax - 1)) \cup ({"fetch"} \X (0 .. PageMax - 1))
AtRest == [doing |-> "idle", at |-> 1, notes |-> NoDossier, token |-> <<"search", 0>>,
           calls |-> 0, since |-> 0]
DeskFree == [doing |-> "idle", on |-> {}]
DeskDone == [doing |-> "done", on |-> {}]

IdentityTypeOK ==
    /\ \A i \in Inquiries :
          /\ inquiry[i].status \in InquiryStatuses
          /\ {inquiry[i].cancel, inquiry[i].company, inquiry[i].valid} \subseteq BOOLEAN
          /\ inquiry[i].lease \in 0 .. (IdentityClockEnd + IdentityLease + CoalesceWait)
          /\ dossier[i].searches \in 0 .. SearchMax
          /\ dossier[i].fetches \in 0 .. FetchMax
          /\ dossier[i].index \in 0 .. Len(dossier[i].pages)
    /\ callState \in [Inquiries -> [Tokens ->
            {"none", "reserved", "in_flight", "uncertain", "settled", "released"}]]
    /\ catalog \in [Subjects -> {"none", "public", "other"}]
    /\ \A w \in IdentityWorkers : seeker[w].doing \in {"idle", "reserved", "calling"}
    /\ \A d \in Desks : desk[d].on \subseteq Inquiries
    /\ identityClock \in 0 .. IdentityClockEnd

IdentityInit ==
    \* requests to come; the first one may be an older one that is closed
    /\ \E first \in {"absent", "closed"} :
          inquiry = [i \in Inquiries |->
              [status |-> IF i = 1 THEN first ELSE "absent", cancel |-> FALSE, lease |-> 0,
               company |-> FALSE, valid |-> TRUE]]
    /\ dossier = [i \in Inquiries |-> NoDossier]
    /\ callState = [i \in Inquiries |-> [t \in Tokens |-> "none"]]
    /\ catalog = [s \in Subjects |-> "none"]
    /\ seeker = [w \in IdentityWorkers |-> AtRest]
    /\ desk \in [Desks -> {DeskFree, DeskDone}]     \* one decision each, or none
    /\ identityClock = 0
-----------------------------------------------------------------------------
(* What a step reads: the request it may take, the evidence it may reuse.   *)
Selectable(i) ==
    /\ inquiry[i].status \in Waiting \cup {"cancel_requested"}
    /\ ~inquiry[i].company
    /\ inquiry[i].lease = 0 \/ inquiry[i].lease < identityClock

CancelAsked(i) ==
    inquiry[i].cancel \/ inquiry[i].status \in {"cancel_requested", "cancelled"}

Equal(i) == {j \in Inquiries \ {i} : SubjectOf[j] = SubjectOf[i] /\ inquiry[j].valid}

OlderWaiting(i) == {j \in Equal(i) : j < i /\ inquiry[j].status \in Waiting}

OwnDossier(i) ==
    IF dossier[i].row > 0 THEN dossier[i]
    ELSE [dossier[i] EXCEPT !.row = 1 + Max({dossier[j].row : j \in Inquiries})]

(* The newest dossier of an equal request is copied before the first search,*)
(* with its marks of a call under way and its counts.                       *)
Notes(i) ==
    LET own == OwnDossier(i)
        rows == {j \in Equal(i) : dossier[j].row > 0}
        previous == dossier[CHOOSE j \in rows : \A k \in rows : dossier[k].row <= dossier[j].row]
    IN  IF own.searches = 0 /\ ~own.copied /\ rows # {} /\ previous.known
        THEN [previous EXCEPT !.copied = TRUE, !.row = own.row]
        ELSE [own EXCEPT !.known = TRUE]

CanSearch(n) == n.searches < SearchMax
WantsSearch(n) == n.index >= Len(n.pages) \/ (CanSearch(n) /\ n.index - n.lastSearch >= 2)

(* recover: what becomes of the reserved and dispatched calls.              *)
Recovered(calls, cancelled) ==
    [t \in Tokens |->
        CASE calls[t] = "reserved" /\ cancelled -> "released"
          [] calls[t] = "in_flight" -> "uncertain"
          [] OTHER -> calls[t]]

(* Mutant: the save does not read the cancellation again.                    *)
SavedAnyway(i, status, found) ==
    [inquiry[i] EXCEPT !.status = status, !.company = inquiry[i].company \/ found, !.lease = 0]
(* _save: the row is read again under its lock, and a cancellation wins.    *)
SavedRow(i, status, found) ==
    [inquiry[i] EXCEPT
        !.status = IF CancelAsked(i) THEN "cancelled" ELSE status,
        !.company = inquiry[i].company \/ (found /\ ~CancelAsked(i)),
        !.lease = 0]

Save(i, notes, status, found) ==
    /\ inquiry' = [inquiry EXCEPT ![i] = SavedRow(i, status, found)]
    /\ dossier' = [dossier EXCEPT ![i] = notes]
-----------------------------------------------------------------------------
(* Steps that need no call: one transaction, under the row lock.            *)
EndCancelled(i) ==
    /\ CancelAsked(i)
    /\ callState' = [callState EXCEPT ![i] = Recovered(callState[i], TRUE)]
    /\ Save(i, OwnDossier(i), "cancelled", FALSE)
    /\ UNCHANGED <<catalog, seeker>>

AskForInput(i) ==
    /\ ~CancelAsked(i) /\ ~inquiry[i].valid
    /\ Save(i, OwnDossier(i), "needs_input", FALSE)
    /\ UNCHANGED <<callState, catalog, seeker>>

Proceeds(i) == ~CancelAsked(i) /\ inquiry[i].valid

(* An older equal request goes first.                                       *)
WaitForOlder(i) ==
    /\ Proceeds(i) /\ OlderWaiting(i) # {}
    /\ inquiry' = [inquiry EXCEPT ![i].lease = identityClock + CoalesceWait]
    /\ dossier' = [dossier EXCEPT ![i] = OwnDossier(i)]
    /\ UNCHANGED <<callState, catalog, seeker>>

Foremost(i) == Proceeds(i) /\ OlderWaiting(i) = {}

UseKnownCompany(i) ==
    /\ Foremost(i) /\ catalog[SubjectOf[i]] # "none"
    /\ IF catalog[SubjectOf[i]] = "public"
       THEN Save(i, Notes(i), "research_queued", TRUE)
       ELSE Save(i, Notes(i), "in_review", FALSE)
    /\ UNCHANGED <<callState, catalog, seeker>>

Searches(i) == Foremost(i) /\ catalog[SubjectOf[i]] = "none"

(* A call whose outcome is unknown is never spent again.                    *)
Interrupted(i) ==
    /\ Searches(i) /\ Notes(i).inFlight
    /\ callState' = [callState EXCEPT ![i] = Recovered(callState[i], FALSE)]
    /\ Save(i, Notes(i), "in_review", FALSE)
    /\ UNCHANGED <<catalog, seeker>>

(* Mutant: the mark of a call under way is not looked at.                    *)
GoesOn(i) == Searches(i)
MayGoOn(i) == Searches(i) /\ ~Notes(i).inFlight

Conflicting(i) ==
    /\ MayGoOn(i) /\ Notes(i).finding = "conflict"
    /\ Save(i, Notes(i), "needs_input", FALSE)
    /\ UNCHANGED <<callState, catalog, seeker>>

(* The company is admitted, unless another transaction inserted one first.  *)
Admit(i) ==
    /\ MayGoOn(i) /\ Notes(i).finding = "corroborated"
    /\ \/ /\ catalog' = [catalog EXCEPT ![SubjectOf[i]] = "public"]
          /\ Save(i, Notes(i), "research_queued", TRUE)
       \/ /\ \E kind \in {"public", "other"} :
                catalog' = [catalog EXCEPT ![SubjectOf[i]] = kind]
          /\ Save(i, Notes(i), "in_review", FALSE)
    /\ UNCHANGED <<callState, seeker>>

Unsettled(i) == MayGoOn(i) /\ Notes(i).finding = "none"

(* Nothing may be fetched any more, or nothing is left to search or read.   *)
Exhausted(i) ==
    /\ Unsettled(i)
    /\ \/ Notes(i).fetches >= FetchMax
       \/ WantsSearch(Notes(i)) /\ ~CanSearch(Notes(i))
    /\ Save(i, Notes(i), "in_review", FALSE)
    /\ UNCHANGED <<callState, catalog, seeker>>

(* The title of the next page is the credit code of another company.        *)
SkipsNext(n) == ~WantsSearch(n) /\ n.pages[n.index + 1] = "other"

SkipCandidate(i) ==
    /\ Unsettled(i) /\ Notes(i).fetches < FetchMax /\ SkipsNext(Notes(i))
    /\ Save(i, [Notes(i) EXCEPT !.index = @ + 1], "identity_queued", FALSE)
    /\ UNCHANGED <<callState, catalog, seeker>>

(* The next call of a request: its token and how many requests it reserves. *)
NextCall(n) ==
    IF WantsSearch(n) THEN [token |-> <<"search", n.searches>>, calls |-> 1]
    ELSE [token |-> <<"fetch", n.index>>, calls |-> Min({FetchReserve, FetchMax - n.fetches})]

Calls(i) ==
    /\ Unsettled(i) /\ Notes(i).fetches < FetchMax
    /\ ~SkipsNext(Notes(i))
    /\ WantsSearch(Notes(i)) => CanSearch(Notes(i))

(* The reservation is committed, which gives up the row lock.               *)
ReserveCall(w, i) ==
    LET next == NextCall(Notes(i)) IN
    /\ Calls(i)
    /\ callState[i][next.token] \in {"none", "reserved"}
    /\ callState' = [callState EXCEPT ![i][next.token] = "reserved"]
    /\ dossier' = [dossier EXCEPT ![i] = Notes(i)]
    /\ seeker' = [seeker EXCEPT ![w] =
            [doing |-> "reserved", at |-> i, notes |-> Notes(i), token |-> next.token,
             calls |-> next.calls, since |-> identityClock]]
    /\ UNCHANGED <<inquiry, catalog>>

DeferCall(i) ==
    /\ Calls(i)
    /\ Save(i, Notes(i), "identity_queued", FALSE)
    /\ UNCHANGED <<callState, catalog, seeker>>

TakeInquiry(w, i) ==
    /\ seeker[w].doing = "idle" /\ Selectable(i)
    /\ \/ EndCancelled(i) \/ AskForInput(i) \/ WaitForOlder(i) \/ UseKnownCompany(i)
       \/ Interrupted(i) \/ Conflicting(i) \/ Admit(i) \/ Exhausted(i)
       \/ SkipCandidate(i) \/ ReserveCall(w, i) \/ DeferCall(i)
    /\ UNCHANGED <<desk, identityClock>>
-----------------------------------------------------------------------------
(* The row is locked again: a cancellation since the reservation ends it.   *)
CancelledBeforeCall(w) ==
    LET i == seeker[w].at IN
    /\ seeker[w].doing = "reserved" /\ CancelAsked(i)
    /\ callState' = [callState EXCEPT ![i] = Recovered(callState[i], TRUE)]
    /\ Save(i, seeker[w].notes, "cancelled", FALSE)
    /\ seeker' = [seeker EXCEPT ![w] = AtRest]
    /\ UNCHANGED <<catalog, desk, identityClock>>

(* The mark of the call and the dispatch are committed together.            *)
Marked(s) ==
    IF s.token[1] = "search"
    THEN [s.notes EXCEPT !.inFlight = TRUE, !.searches = @ + 1, !.lastSearch = s.notes.index]
    ELSE [s.notes EXCEPT !.inFlight = TRUE, !.index = @ + 1, !.fetches = @ + s.calls]

DispatchCall(w) ==
    LET s == seeker[w]
        i == s.at
    IN
    /\ s.doing = "reserved" /\ ~CancelAsked(i)
    /\ callState[i][s.token] = "reserved"
    /\ callState' = [callState EXCEPT ![i][s.token] = "in_flight"]
    /\ dossier' = [dossier EXCEPT ![i] = Marked(s)]
    /\ inquiry' = [inquiry EXCEPT ![i].status = "identity_checking",
                                  ![i].lease = s.since + IdentityLease]
    /\ seeker' = [seeker EXCEPT ![w].doing = "calling", ![w].notes = Marked(s),
                                ![w].since = 0]
    /\ UNCHANGED <<catalog, desk, identityClock>>

(* The answer: a search finds pages or none (their order is the provider's),  *)
(* a fetch proves the identity, contradicts it or shows nothing,  *)
(* with as many requests as it made.                                        *)
AnswerCall(w) ==
    LET s == seeker[w]
        more == IF s.token[1] = "search" THEN SearchAnswers ELSE {<<>>}
        findings == IF s.token[1] = "search" THEN {s.notes.finding}
                    ELSE {"none", "corroborated", "conflict"}
        unused == IF s.token[1] = "search" THEN {0} ELSE 0 .. s.calls
    IN
    /\ s.doing = "calling"
    /\ callState' = [callState EXCEPT ![s.at][s.token] = "settled"]
    /\ \E pages \in more, finding \in findings, spare \in unused :
          Save(s.at,
               [s.notes EXCEPT !.inFlight = FALSE, !.pages = @ \o pages,
                               !.finding = finding, !.fetches = @ - spare],
               "identity_queued", FALSE)
    /\ seeker' = [seeker EXCEPT ![w] = AtRest]
    /\ UNCHANGED <<catalog, desk, identityClock>>

(* The worker dies, or the dispatch is refused: the call stays as it is.    *)
SeekerStops(w) ==
    /\ seeker[w].doing # "idle"
    /\ seeker' = [seeker EXCEPT ![w] = AtRest]
    /\ UNCHANGED <<inquiry, dossier, callState, catalog, desk, identityClock>>
-----------------------------------------------------------------------------
(* The requester, the administrators and the network check.                 *)
Inquire(i, valid) ==
    /\ inquiry[i].status = "absent"
    /\ \A j \in Inquiries : j < i => inquiry[j].status # "absent"
    /\ inquiry' = [inquiry EXCEPT ![i].status = "pending", ![i].valid = valid]
    /\ UNCHANGED <<dossier, callState, catalog, seeker, desk, identityClock>>

CancelInquiry(i) ==
    /\ inquiry[i].status \in Cancellable
    /\ inquiry' = [inquiry EXCEPT ![i] =
            IF inquiry[i].status = "identity_checking"
            THEN [inquiry[i] EXCEPT !.cancel = TRUE, !.status = "cancel_requested"]
            ELSE [inquiry[i] EXCEPT !.cancel = TRUE, !.status = "cancelled", !.lease = 0]]
    /\ UNCHANGED <<dossier, callState, catalog, seeker, desk, identityClock>>

LookAtInquiry(d) ==
    /\ desk[d].doing = "idle"
    /\ \/ \E i \in Inquiries, what \in {"review", "approve"} :
             /\ inquiry[i].status \in {"pending", "in_review"}
             /\ desk' = [desk EXCEPT ![d] = [doing |-> what, on |-> {i}]]
       \/ LET queued == {i \in Inquiries :
                            inquiry[i].status \in {"identity_queued", "identity_checking"}}
          IN  /\ queued # {}
              /\ desk' = [desk EXCEPT ![d] = [doing |-> "network", on |-> queued]]
    /\ UNCHANGED <<inquiry, dossier, callState, catalog, seeker, identityClock>>

Rewrite(d, status, found) ==
    inquiry' = [i \in Inquiries |->
        IF i \in desk[d].on
        THEN [inquiry[i] EXCEPT !.status = status, !.company = inquiry[i].company \/ found]
        ELSE inquiry[i]]

DecideInquiry(d) ==
    /\ \/ /\ desk[d].doing = "review"
          /\ \E status \in {"in_review", "closed"} : Rewrite(d, status, FALSE)
       \/ /\ desk[d].doing = "approve"
          /\ IF \A i \in desk[d].on : catalog[SubjectOf[i]] = "public"
             THEN Rewrite(d, "research_queued", TRUE)
             ELSE UNCHANGED inquiry
       \/ /\ desk[d].doing = "network"
          /\ Rewrite(d, "closed", FALSE)
    /\ desk' = [desk EXCEPT ![d] = DeskDone]
    /\ UNCHANGED <<dossier, callState, catalog, seeker, identityClock>>

IdentityTick ==
    /\ identityClock < IdentityClockEnd
    /\ identityClock' = identityClock + 1
    /\ UNCHANGED <<inquiry, dossier, callState, catalog, seeker, desk>>

IdentityNext ==
    \/ \E w \in IdentityWorkers :
          \/ \E i \in Inquiries : TakeInquiry(w, i)
          \/ CancelledBeforeCall(w) \/ DispatchCall(w) \/ AnswerCall(w) \/ SeekerStops(w)
    \/ \E i \in Inquiries :
          \/ CancelInquiry(i)
          \/ \E valid \in BOOLEAN : Inquire(i, valid)
    \/ \E d \in Desks : LookAtInquiry(d) \/ DecideInquiry(d)
    \/ IdentityTick

IdentitySpec == IdentityInit /\ [][IdentityNext]_identityVars
-----------------------------------------------------------------------------
(* A worker never reopens a cancelled request, however late its answer is;  *)
(* only a decision on a row read before the cancellation may (_save's       *)
(* locked re-read; the decision handlers take no lock).                     *)
WorkersKeepCancellation ==
    [][\A i \in Inquiries :
          inquiry[i].status = "cancelled" /\ desk' = desk
              => inquiry'[i].status = "cancelled"]_identityVars

(* No call is dispatched for a request while a call of it is under way,     *)
(* also after its lease ran out and another worker took the request         *)
(* ("never silently spend it again": the in_flight mark and the ledger key).*)
OneIdentityCall ==
    \A v, w \in IdentityWorkers :
        v # w /\ seeker[v].doing = "calling" /\ seeker[w].doing = "calling"
            => seeker[v].at # seeker[w].at
=============================================================================
