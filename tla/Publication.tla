---------------------------- MODULE Publication ----------------------------
(***************************************************************************)
(* How a record about one company becomes a fact that all users see          *)
(* (services.py, source_monitoring.py): candidate documents are judged and   *)
(* imported, records are routed to private events of their owner, platform   *)
(* administrators promote or reject these for sharing and retract shared     *)
(* events, reviewers decide demonstration events, and every publication      *)
(* renews the company's shared snapshot.                                     *)
(*                                                                         *)
(* No handler locks the rows it reads.  Each is two steps, what it reads and *)
(* checks, then what it writes and commits; unique indexes decide at the     *)
(* commit.  A handler that fails at either leaves nothing.  The renewal of   *)
(* the snapshot needs the row of the current one: two cannot overlap.        *)
(***************************************************************************)
EXTENDS Naturals, FiniteSets

CONSTANTS
    Clerks,         \* sessions of administrators, importers and reviewers
    Leads,          \* private events: one per owner and fact
    FactOf,         \* [Leads -> Facts]: event_fingerprint
    Records,        \* documents that may be imported
    LeadOf,         \* [Records -> Leads]
    FromMonitoring, \* the records that are candidate documents of a trusted source
    Reviews         \* demonstration events in the review queue

Facts == {FactOf[l] : l \in Leads}

ASSUME PublicationAssumption ==
    /\ DOMAIN FactOf = Leads
    /\ LeadOf \in [Records -> Leads] /\ FromMonitoring \subseteq Records
    /\ Facts \cap Reviews = {}

VARIABLES
    autoPublish,\* publication_policy.enabled, of the deployment
    candidate,  \* [FromMonitoring -> processing_status]
    document,   \* [Records -> {"absent", "unresolved", "resolved"}]: raw_documents, mentions
    lead,       \* [Leads -> [status, evidence]]: private events
    shared,     \* [Facts -> [status, evidence]]: events of all users, by fingerprint
    outcome,    \* set of <<action, event>>: event_sharing_decisions
    review,     \* [Reviews -> [status, event]]: review_queue and its event
    snapshot,   \* the current shared snapshot's published_event_count
    overturned, \* history: a review's rejection overwrote an approval since the last snapshot
    clerk       \* [Clerks -> what the session does, and what it has read]

publicationVars == <<autoPublish, candidate, document, lead, shared, outcome, review, snapshot, overturned, clerk>>
rows == <<candidate, document, lead, shared, outcome, review, snapshot, overturned>>

Idle == [op |-> "idle"]
LeadRow == [status : {"absent", "candidate", "published"}, evidence : SUBSET Records]
SharedRow == [status : {"absent", "published", "retracted"}, evidence : SUBSET Records]
ReviewRow == [status : {"pending", "approved", "rejected"},
              event : {"in_review", "published", "rejected", "retracted"}]

PublicationInit ==
    /\ autoPublish \in BOOLEAN
    /\ candidate = [r \in FromMonitoring |-> "pending"]
    /\ document = [r \in Records |-> "absent"]
    /\ lead = [l \in Leads |-> [status |-> "absent", evidence |-> {}]]
    /\ shared = [f \in Facts |-> [status |-> "absent", evidence |-> {}]]
    /\ outcome = {}
    \* demonstration events that wait for their review, or had it
    /\ review \in [Reviews -> {[status |-> "pending", event |-> "in_review"],
                                [status |-> "rejected", event |-> "rejected"]}]
    /\ snapshot = 0 /\ overturned = FALSE
    /\ clerk = [c \in Clerks |-> Idle]

Published(sh, rv) == Cardinality({f \in Facts : sh[f].status = "published"})
                     + Cardinality({v \in Reviews : rv[v].event = "published"})

(* Mutant: the count is taken before the change.                             *)
RefreshTooSoon ==
    /\ snapshot' = Published(shared, review)
    /\ overturned' = FALSE
(* _refresh_company_snapshot, in the transaction of its caller.              *)
RefreshSnapshot ==
    /\ snapshot' = Published(shared', review')
    /\ overturned' = FALSE
KeepSnapshot == UNCHANGED <<snapshot, overturned>>

Begin(c, transaction) ==
    /\ clerk[c] = Idle
    /\ clerk' = [clerk EXCEPT ![c] = transaction]
    /\ UNCHANGED rows
Ends(c, op) == clerk[c].op = op /\ clerk' = [clerk EXCEPT ![c] = Idle]

(* The handler fails, or a unique index refuses one of its rows.             *)
RollBack(c) ==
    /\ clerk[c] # Idle
    /\ clerk' = [clerk EXCEPT ![c] = Idle]
    /\ UNCHANGED rows

-----------------------------------------------------------------------------
(* Candidate documents (decide_candidate_document)                          *)

BeginJudge(c, r) ==
    /\ candidate[r] = "pending"
    /\ Begin(c, [op |-> "judge", record |-> r])

EndJudge(c) ==
    /\ Ends(c, "judge")
    /\ \E decision \in {"worth_research", "not_relevant"} :
          candidate' = [candidate EXCEPT ![clerk[c].record] = decision]
    /\ UNCHANGED <<document, lead, shared, outcome, review>> /\ KeepSnapshot

-----------------------------------------------------------------------------
(* Imports (import_manual_research, import_candidate_research)              *)

(* A candidate is imported once it is worth it, by a platform that does not  *)
(* publish automatically, and only under a verified identity.                *)
Routes(r) == {"unconfirmed_lead"} \cup
             (IF autoPublish /\ r \notin FromMonitoring THEN {"auto_published"} ELSE {})
Identities(r) == {"resolved"} \cup (IF r \in FromMonitoring THEN {} ELSE {"unresolved"})

BeginImport(c, r) ==
    /\ document[r] = "absent"
    /\ r \in FromMonitoring => candidate[r] = "worth_research" /\ ~autoPublish
    /\ \E route \in Routes(r), identity \in Identities(r) :
          Begin(c, [op |-> "import", record |-> r, route |-> route, identity |-> identity,
                    seen |-> lead[LeadOf[r]].status])

(* _route_manual_record: a new event, or evidence for the one that the       *)
(* transaction has read; a published one takes only what would be published. *)
Routed(row, r, route, seen) ==
    [status |-> IF route = "auto_published" THEN "published"
                ELSE IF seen = "absent" THEN "candidate" ELSE row.status,
     evidence |-> IF seen = "published" /\ route # "auto_published" THEN row.evidence
                  ELSE row.evidence \cup {r}]
(* The fingerprint of an event is unique for its owner.                      *)
MayRoute(t) == t.seen = "absent" => lead[LeadOf[t.record]].status = "absent"
RouteRecord(t) ==
    /\ MayRoute(t)
    /\ lead' = [lead EXCEPT ![LeadOf[t.record]] = Routed(@, t.record, t.route, t.seen)]

(* A record whose company is not verified waits in the review queue.         *)
EndImport(c) ==
    /\ Ends(c, "import")
    /\ LET t == clerk[c] IN
       /\ document[t.record] = "absent"
       /\ document' = [document EXCEPT ![t.record] = t.identity]
       /\ IF t.identity = "resolved" THEN RouteRecord(t) ELSE UNCHANGED lead
    /\ UNCHANGED <<candidate, shared, outcome, review>> /\ KeepSnapshot

(* resolve_identity_review: a reviewer names the company of such a record.   *)
BeginResolve(c, r) ==
    /\ document[r] = "unresolved"
    /\ \E route \in Routes(r) :
          Begin(c, [op |-> "resolve", record |-> r, route |-> route,
                    seen |-> lead[LeadOf[r]].status])

EndResolve(c) ==
    /\ Ends(c, "resolve")
    /\ document[clerk[c].record] = "unresolved"     \* the usage row is unique per review
    /\ document' = [document EXCEPT ![clerk[c].record] = "resolved"]
    /\ RouteRecord(clerk[c])
    /\ UNCHANGED <<candidate, shared, outcome, review>> /\ KeepSnapshot

-----------------------------------------------------------------------------
(* Sharing                                                                  *)

(* A promotion needs a candidate that was neither promoted nor rejected, and *)
(* shares the fact anew or adds to the shared event that is published.       *)
Undecided(l) == outcome \cap {<<"promote", l>>, <<"reject", l>>} = {}
BeginPromote(c, l) ==
    /\ lead[l].status = "candidate" /\ Undecided(l)
    /\ shared[FactOf[l]].status # "retracted"
    /\ \E evidence \in (SUBSET lead[l].evidence) \ {{}} :
          Begin(c, [op |-> "promote", lead |-> l, evidence |-> evidence,
                    seen |-> shared[FactOf[l]].status])

(* Mutant: no index over the outcomes.                                       *)
DecidesAgain(l) == TRUE
(* One outcome per private event (uq_event_sharing_source_outcome), one      *)
(* shared event per fingerprint.                                             *)
MayDecide(l) == Undecided(l)
(* Mutant: a promotion publishes the shared event whatever it is.             *)
AlwaysPublished(seen, status) == "published"
PromotedStatus(seen, status) == IF seen = "absent" THEN "published" ELSE status
EndPromote(c) ==
    /\ Ends(c, "promote")
    /\ LET t == clerk[c]  f == FactOf[t.lead] IN
       /\ MayDecide(t.lead)
       /\ t.seen = "absent" => shared[f].status = "absent"
       /\ shared' = [shared EXCEPT ![f] =
              [status |-> PromotedStatus(t.seen, @.status),
               evidence |-> @.evidence \cup t.evidence]]
       /\ outcome' = outcome \cup {<<"promote", t.lead>>}
    /\ UNCHANGED <<candidate, document, lead, review>>
    /\ RefreshSnapshot

BeginReject(c, l) ==
    /\ lead[l].status = "candidate" /\ Undecided(l)
    /\ Begin(c, [op |-> "reject", lead |-> l])

EndReject(c) ==
    /\ Ends(c, "reject")
    /\ MayDecide(clerk[c].lead)
    /\ outcome' = outcome \cup {<<"reject", clerk[c].lead>>}
    /\ UNCHANGED <<candidate, document, lead, shared, review>> /\ KeepSnapshot

OnShow(e) == IF e \in Facts THEN shared[e].status = "published" ELSE review[e].event = "published"
BeginRetract(c, e) ==
    /\ OnShow(e)
    /\ Begin(c, [op |-> "retract", event |-> e])

EndRetract(c) ==
    /\ Ends(c, "retract")
    /\ LET e == clerk[c].event IN
       /\ <<"retract", e>> \notin outcome      \* the decision's key
       /\ outcome' = outcome \cup {<<"retract", e>>}
       /\ IF e \in Facts
          THEN shared' = [shared EXCEPT ![e].status = "retracted"] /\ UNCHANGED review
          ELSE review' = [review EXCEPT ![e].event = "retracted"] /\ UNCHANGED shared
    /\ UNCHANGED <<candidate, document, lead>>
    /\ RefreshSnapshot

-----------------------------------------------------------------------------
(* Reviews of demonstration events (decide_review): approved, their shared   *)
(* documents make them events of all users.                                  *)

BeginReview(c, v) ==
    /\ review[v].status = "pending"
    /\ Begin(c, [op |-> "review", review |-> v])

Approve(c) ==
    /\ Ends(c, "review")
    /\ review' = [review EXCEPT ![clerk[c].review] = [status |-> "approved", event |-> "published"]]
    /\ UNCHANGED <<candidate, document, lead, shared, outcome>>
    /\ RefreshSnapshot

(* A rejection leaves the snapshot alone.                                    *)
Refuse(c) ==
    /\ Ends(c, "review")
    /\ review' = [review EXCEPT ![clerk[c].review] = [status |-> "rejected", event |-> "rejected"]]
    /\ overturned' = (overturned \/ review[clerk[c].review].event = "published")
    /\ UNCHANGED <<candidate, document, lead, shared, outcome, snapshot>>

ClerkBegins(c) ==
    \/ \E r \in FromMonitoring : BeginJudge(c, r)
    \/ \E r \in Records : BeginImport(c, r) \/ BeginResolve(c, r)
    \/ \E l \in Leads : BeginPromote(c, l) \/ BeginReject(c, l)
    \/ \E e \in Facts \cup Reviews : BeginRetract(c, e)
    \/ \E v \in Reviews : BeginReview(c, v)

ClerkEnds(c) ==
    \/ EndJudge(c) \/ EndImport(c) \/ EndResolve(c)
    \/ EndPromote(c) \/ EndReject(c) \/ EndRetract(c)
    \/ Approve(c) \/ Refuse(c) \/ RollBack(c)

PublicationNext == UNCHANGED autoPublish /\ \E c \in Clerks : ClerkBegins(c) \/ ClerkEnds(c)

PublicationSpec == PublicationInit /\ [][PublicationNext]_publicationVars

-----------------------------------------------------------------------------
PublicationTypeOK ==
    /\ autoPublish \in BOOLEAN
    /\ candidate \in [FromMonitoring -> {"pending", "worth_research", "not_relevant"}]
    /\ document \in [Records -> {"absent", "unresolved", "resolved"}]
    /\ lead \in [Leads -> LeadRow] /\ shared \in [Facts -> SharedRow]
    /\ outcome \subseteq ({"promote", "reject"} \X Leads) \cup ({"retract"} \X (Facts \cup Reviews))
    /\ review \in [Reviews -> ReviewRow]
    /\ snapshot \in Nat /\ overturned \in BOOLEAN

(* What all users see is what an administrator promoted, and nothing of a    *)
(* private event that was rejected, whoever decided at the same time: the     *)
(* shared evidence belongs to promoted leads, each fact on show has some, no  *)
(* lead was both promoted and rejected, and the shared snapshot counts what   *)
(* is on show; except after a rejection of a review that had read it before   *)
(* another reviewer approved it.  (promote_private_event, reject_private_event *)
(* and the index over outcomes; _refresh_company_snapshot,                   *)
(* docs/02-system-architecture.md:178)                                       *)
SharedAsDecided ==
    /\ \A f \in Facts :
          /\ shared[f].status = "published" => shared[f].evidence # {}
          /\ \A r \in shared[f].evidence : <<"promote", LeadOf[r]>> \in outcome
    /\ \A l \in Leads : ~(<<"promote", l>> \in outcome /\ <<"reject", l>> \in outcome)
    /\ snapshot = Published(shared, review) \/ overturned

(* A retracted fact is never shown again, also not by a promotion of the same *)
(* fact, from another owner, that had already checked it (docs/08-api-design  *)
(* .md:59).  A demonstration event is, by a second reviewer who had read it    *)
(* pending.  (retract_shared_event, promote_private_event)                   *)
RetractedForGood ==
    [][\A f \in Facts : shared[f].status = "retracted" => shared'[f].status = "retracted"]_publicationVars
=============================================================================
