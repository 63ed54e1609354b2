---------------------------- MODULE TenderRecords ----------------------------
(***************************************************************************)
(* Award notices of one company (tender_events.py, tender_storage.py,        *)
(* tender_publication.py, tender_presentation.py and the path for them in    *)
(* promote_private_event, services.py): a notice is read from its document,   *)
(* filed as an observation of a private event of its holder, approved by a   *)
(* platform administrator for the shared event of its project, and shown as  *)
(* far as its evidence is still there.                                      *)
(*                                                                         *)
(* Filing is one transaction under a lock of the holder and the project.  An *)
(* approval checks the notice, waits for the lock of the project, reads the  *)
(* shared event and the decisions, and commits.  Retractions and refusals    *)
(* take no lock.                                                            *)
(***************************************************************************)
EXTENDS Naturals, Sequences, FiniteSets

CONSTANTS
    Notices,    \* documents whose labelled lines form one notice
    HolderOf,   \* [Notices -> who holds the private document]
    TextOf,     \* [Notices -> its fields, see Text]
    Approvers,  \* sessions of platform administrators
    NotStated,  \* a field that the notice leaves out
    LossMax     \* bound: notices that lose a permission, or that are withdrawn

(* What _fields finds: the kind of notice, its number, the number of the      *)
(* notice it corrects, its lot (with buyer and project), its amount.         *)
ASSUME TenderAssumption ==
    \A n \in Notices :
        /\ n \in DOMAIN HolderOf /\ n \in DOMAIN TextOf
        /\ DOMAIN TextOf[n] = {"corrects", "number", "original", "lot", "amount"}
        /\ TextOf[n].corrects \in BOOLEAN

VARIABLES
    filed,      \* [Notices -> the kind of its observation, or "absent"]
    permitted,  \* notices whose licences, import and verified subject still hold
    award,      \* [Projects -> [status, facts, rounds]]: shared events, with the notices
                \* approved for them in the order of their review
    struckNotices,  \* notices whose shared evidence is no longer to be displayed
    refused,    \* private events that were rejected for sharing
    approver    \* [Approvers -> the step of an approval]

tenderVars == <<filed, permitted, award, struckNotices, refused, approver>>

-----------------------------------------------------------------------------
(* Reading a notice (extract_tender_candidate)                              *)

(* A correction names the notice that it corrects, and no other notice does. *)
IsNotice(text) ==
    IF text.corrects THEN text.number = NotStated \/ text.number # text.original
    ELSE text.original = NotStated

(* business_key: the original notice's number keeps two purchases of one lot  *)
(* apart, and leads a correction to what it corrects.                        *)
Anchor(text) == IF text.corrects THEN text.original ELSE text.number
HasKey(text) == NotStated \notin {Anchor(text), text.lot}
BusinessKey(text) == <<text.lot, Anchor(text)>>

Complete(n) == HasKey(TextOf[n]) /\ TextOf[n].amount # NotStated
NoticeFacts(n) == <<TextOf[n].lot, TextOf[n].amount>>     \* fact_version, candidate_facts

ProjectOf(n) == IF HasKey(TextOf[n]) THEN BusinessKey(TextOf[n]) ELSE <<n>>
PrivateEvent(n) == <<HolderOf[n], ProjectOf(n)>>
Projects == {ProjectOf(n) : n \in Notices}

ApproverFree == [step |-> "idle"]
NoAward == [status |-> "absent", facts |-> <<>>, rounds |-> <<>>]

TenderInit ==
    /\ filed = [n \in Notices |-> "absent"]
    /\ permitted = Notices
    /\ award = [p \in Projects |-> NoAward]
    /\ struckNotices = {} /\ refused = {}
    /\ approver = [a \in Approvers |-> ApproverFree]

-----------------------------------------------------------------------------
(* Filing (persist_tender_candidate)                                        *)

Filed(event) == {n \in Notices : filed[n] # "absent" /\ PrivateEvent(n) = event}
KindOf(n) ==
    LET others == Filed(PrivateEvent(n)) IN
    CASE TextOf[n].corrects -> "correction_candidate"
      [] ~TextOf[n].corrects /\ ~Complete(n) -> "incomplete"
      [] ~TextOf[n].corrects /\ Complete(n) /\ others = {} -> "initial"
      [] OTHER -> IF \E m \in others : NoticeFacts(m) = NoticeFacts(n) THEN "same_facts" ELSE "conflicting"

(* A document is filed once; filing it again finds its observation.          *)
FileNotice(n) ==
    /\ filed[n] = "absent" /\ n \in permitted /\ IsNotice(TextOf[n])
    /\ filed' = [filed EXCEPT ![n] = KindOf(n)]
    /\ UNCHANGED <<permitted, award, struckNotices, refused, approver>>

-----------------------------------------------------------------------------
(* Approval (promote_private_event with select_tender_observation)          *)

Approved(n) == \E i \in DOMAIN award[ProjectOf(n)].rounds : award[ProjectOf(n)].rounds[i] = n

(* The notice is read again from its document, in full, before the lock.      *)
ChooseNotice(a, n) ==
    /\ approver[a] = ApproverFree
    /\ filed[n] \notin {"absent", "conflicting"} /\ Complete(n) /\ n \in permitted
    /\ approver' = [approver EXCEPT ![a] = [step |-> "chosen", notice |-> n]]
    /\ UNCHANGED <<filed, permitted, award, struckNotices, refused>>

(* Mutant: approvals of one project do not wait for each other.              *)
LockIgnored(a) == TRUE
LockFree(a) == \A b \in Approvers \ {a} :
    approver[b].step = "locked" => ProjectOf(approver[b].notice) # ProjectOf(approver[a].notice)

(* Mutant: what the observation is called decides, not the shared facts.     *)
AgreesByKind(n, seen) == seen.status = "absent" \/ filed[n] # "incomplete"
(* Other facts than the shared ones need a notice of correction.             *)
Agrees(n, seen) == seen.status = "absent" \/ seen.facts = NoticeFacts(n) \/ TextOf[n].corrects

(* Under the lock: approved already, refused, retracted, or read.            *)
LockProject(a) ==
    /\ approver[a].step = "chosen" /\ LockFree(a)
    /\ LET n == approver[a].notice  seen == award[ProjectOf(n)] IN
       approver' = [approver EXCEPT ![a] =
           IF ~Approved(n) /\ PrivateEvent(n) \notin refused
              /\ seen.status # "retracted" /\ Agrees(n, seen)
           THEN [step |-> "locked", notice |-> n, seen |-> seen]
           ELSE ApproverFree]
    /\ UNCHANGED <<filed, permitted, award, struckNotices, refused>>

(* The facts are written when they differ from those that were read; the      *)
(* evidence gets the snapshot of the notice.  Fingerprint and observation     *)
(* are unique.                                                              *)
CommitApproval(a) ==
    /\ approver[a].step = "locked"
    /\ LET n == approver[a].notice  p == ProjectOf(n)  seen == approver[a].seen IN
       /\ seen.status = "absent" => award[p].status = "absent"
       /\ ~Approved(n)
       /\ award' = [award EXCEPT ![p] =
              [status |-> IF seen.status = "absent" THEN "published" ELSE @.status,
               facts  |-> IF seen.facts # NoticeFacts(n) THEN NoticeFacts(n) ELSE @.facts,
               rounds |-> Append(@.rounds, n)]]
    /\ approver' = [approver EXCEPT ![a] = ApproverFree]
    /\ UNCHANGED <<filed, permitted, struckNotices, refused>>

FailApproval(a) ==
    /\ approver[a] # ApproverFree
    /\ approver' = [approver EXCEPT ![a] = ApproverFree]
    /\ UNCHANGED <<filed, permitted, award, struckNotices, refused>>

-----------------------------------------------------------------------------
(* Without the lock: retract_shared_event, reject_private_event.             *)

RetractAward(p) ==
    /\ award[p].status = "published"
    /\ award' = [award EXCEPT ![p].status = "retracted"]
    /\ UNCHANGED <<filed, permitted, struckNotices, refused, approver>>

RefuseEvent(event) ==
    /\ event \notin refused /\ Filed(event) # {}
    /\ \A n \in Filed(event) : ~Approved(n)
    /\ refused' = refused \cup {event}
    /\ UNCHANGED <<filed, permitted, award, struckNotices, approver>>

Losses == Cardinality(Notices \ permitted) + Cardinality(struckNotices)

(* A licence ends, an import or the company's name is corrected.             *)
LosePermission(n) ==
    /\ n \in permitted /\ Losses < LossMax
    /\ permitted' = permitted \ {n}
    /\ UNCHANGED <<filed, award, struckNotices, refused, approver>>

(* An operator takes shared evidence out of display.                         *)
WithdrawEvidence(n) ==
    /\ n \notin struckNotices /\ Approved(n) /\ Losses < LossMax
    /\ struckNotices' = struckNotices \cup {n}
    /\ UNCHANGED <<filed, permitted, award, refused, approver>>

TenderNext ==
    \/ \E n \in Notices : FileNotice(n) \/ LosePermission(n) \/ WithdrawEvidence(n)
    \/ \E p \in Projects : RetractAward(p)
    \/ \E n \in Notices : RefuseEvent(PrivateEvent(n))
    \/ \E a \in Approvers :
          \/ \E n \in Notices : ChooseNotice(a, n)
          \/ LockProject(a) \/ CommitApproval(a) \/ FailApproval(a)

TenderSpec == TenderInit /\ [][TenderNext]_tenderVars

-----------------------------------------------------------------------------
(* What is shown (tender_observations, event_display_kind, _event_out)       *)

(* The approved notices that carry the current facts, from the last one that  *)
(* did not: a value that returns by a correction begins a round of its own.   *)
CurrentRounds(p) ==
    LET rounds == award[p].rounds IN
    {i \in DOMAIN rounds :
        \A j \in i .. Len(rounds) : NoticeFacts(rounds[j]) = award[p].facts}
Shows(p) ==
    /\ award[p].status = "published"
    /\ \E i \in CurrentRounds(p) : award[p].rounds[i] \notin struckNotices
(* Without a current notice there are no facts, only that they are withdrawn.     *)
ShownFacts(p) == IF Shows(p) THEN award[p].facts ELSE <<>>

TenderTypeOK ==
    /\ filed \in [Notices -> {"absent", "initial", "same_facts", "conflicting", "incomplete",
                              "correction_candidate"}]
    /\ permitted \subseteq Notices /\ struckNotices \subseteq Notices
    /\ DOMAIN award = Projects
    /\ \A p \in Projects :
          /\ award[p].status \in {"absent", "published", "retracted"}
          /\ award[p].facts = <<>> <=> award[p].rounds = <<>>
    /\ refused \subseteq {PrivateEvent(n) : n \in Notices}
    /\ \A a \in Approvers : approver[a].step \in {"idle", "chosen", "locked"}

(* Users see the facts of the notice that was reviewed last for as long as    *)
(* its evidence is displayed, and never those of a notice that another review *)
(* has superseded; and the facts of a project change only by a notice that    *)
(* says that it corrects another, never by a second notice that says          *)
(* otherwise.  This is so whatever each holder's private event calls a notice, *)
(* in whatever order notices are filed and whoever approves them at the same  *)
(* time.  (promote_private_event under the lock of the project: "conflicting  *)
(* facts require an explicit correction notice"; tender_observations)         *)
ReviewedLastIsShown ==
    \A p \in Projects :
        LET rounds == award[p].rounds IN
        /\ \A i \in 2 .. Len(rounds) :
              NoticeFacts(rounds[i]) # NoticeFacts(rounds[i - 1]) => TextOf[rounds[i]].corrects
        /\ award[p].status = "published" =>
              LET last == rounds[Len(rounds)] IN
              /\ last \notin struckNotices => ShownFacts(p) = NoticeFacts(last)
              /\ ShownFacts(p) \in {NoticeFacts(last), <<>>}
=============================================================================
