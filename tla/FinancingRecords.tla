--------------------------- MODULE FinancingRecords ---------------------------
(***************************************************************************)
(* Reports on financing rounds of one company (financing_events.py,          *)
(* financing_comparison.py, financing_storage.py): what a report claims is    *)
(* compared with the events that the company has, and is added to the one    *)
(* event it belongs to, or begins an event of its own.                       *)
(*                                                                         *)
(* A report is filed in one transaction under a lock of the company; what it *)
(* reads after the lock is taken may still be withdrawn or retracted before  *)
(* the transaction commits, since neither waits for the lock.                *)
(***************************************************************************)
EXTENDS Naturals, Sequences, FiniteSets

CONSTANTS
    Reports,        \* documents that disclose a financing of the company
    CuratedRecords,      \* curated records of the company's financings
    ClaimOf,        \* [Reports \cup CuratedRecords -> what is claimed, see Claim]
    Filers,         \* sessions of workers
    Undisclosed,    \* a field that is not disclosed
    WithdrawalMax   \* bound: pieces of evidence withdrawn

(* Claims of investors and days are small sets and numbers: extract_financing *)
(* has normalised them.  "several" stands for a text with several financings. *)
ASSUME FinancingAssumption ==
    /\ IsFiniteSet(CuratedRecords)
    /\ \A r \in Reports \cup CuratedRecords :
        /\ DOMAIN ClaimOf[r] = {"scope", "round", "amount", "investors", "day", "occurred",
                                "corrects", "several"}
        /\ IsFiniteSet(ClaimOf[r].investors)
        /\ ClaimOf[r].day \in Nat \cup {Undisclosed}
        /\ ClaimOf[r].corrects \in BOOLEAN /\ ClaimOf[r].several \in BOOLEAN

VARIABLES
    lineup,     \* Seq of events: [status, rows], rows in the order of their creation
    hidden,     \* reports and curated records whose evidence is not displayed
    filer       \* [Filers -> the step of a transaction]

financingVars == <<lineup, hidden, filer>>

Observed(r, kind, unclear) == [report |-> r, kind |-> kind, unclear |-> unclear]
FilerFree == [step |-> "idle"]

FinancingInit ==
    \* curated records begin one event each, in any order
    /\ \E order \in [1 .. Cardinality(CuratedRecords) -> CuratedRecords] :
          /\ \A c \in CuratedRecords : \E i \in DOMAIN order : order[i] = c
          /\ lineup = [i \in DOMAIN order |->
                [status |-> "published", rows |-> <<Observed(order[i], "curated", FALSE)>>]]
    /\ hidden = {}
    /\ filer = [w \in Filers |-> FilerFree]

-----------------------------------------------------------------------------
(* Comparing a claim with an earlier one (compare_financing)                 *)

Disclosed(v) == v # Undisclosed
DiffersFrom(v, w) == Disclosed(v) /\ Disclosed(w) /\ v # w
Disjoint(s, t) == s # {} /\ t # {} /\ s \cap t = {}
DaysApart(d, e) == IF d < e THEN e - d ELSE d - e

(* An unknown round is no obstacle; several financings, no date, or several   *)
(* events it might belong to, are.                                          *)
Unsure(row) == row.unclear \/ ClaimOf[row.report].several \/ ~Disclosed(ClaimOf[row.report].day)

SameRound(l, r) ==
    /\ Disclosed(l.round) /\ l.round = r.round /\ l.day = r.day
    /\ ~DiffersFrom(l.amount, r.amount) \/ ~Disjoint(l.investors, r.investors) \/ r.corrects
Compatible(l, r) ==
    /\ ~(Disclosed(l.round) /\ Disclosed(r.round) /\ l.day = r.day)
    /\ DaysApart(l.day, r.day) <= 1
    /\ Disclosed(l.amount) /\ l.amount = r.amount
    /\ l.investors \cap r.investors # {}
    /\ ~DiffersFrom(l.occurred, r.occurred)
    /\ ~l.corrects /\ ~r.corrects

Association(left, right) ==
    LET l == ClaimOf[left.report]  r == ClaimOf[right.report] IN
    IF l.scope # r.scope \/ DiffersFrom(l.round, r.round) \/ Unsure(left) \/ Unsure(right)
    THEN "unlinked"
    ELSE IF SameRound(l, r) THEN "exact_matter"
    ELSE IF Compatible(l, r) THEN "compatible_evidence"
    ELSE "unlinked"

-----------------------------------------------------------------------------
(* Which event a report belongs to (persist_financing_document)              *)

Displayable(row) == row.report \notin hidden
StillOpen(event) == event.status \notin {"rejected", "retracted"}
IsCurated(event) == event.rows[1].kind = "curated"

(* A curated event is compared by its current record, another by the oldest   *)
(* observation that is still displayed.                                     *)
Anchors(event) ==
    {i \in DOMAIN event.rows :
        /\ Displayable(event.rows[i])
        /\ IF IsCurated(event) THEN i = 1
           ELSE \A j \in 1 .. i - 1 : ~Displayable(event.rows[j])}

RoundsOf(event, kinds) ==
    {ClaimOf[event.rows[i].report].round :
        i \in {j \in DOMAIN event.rows : Displayable(event.rows[j]) /\ event.rows[j].kind \in kinds}}
    \ {Undisclosed}

(* Mutant: the oldest observation alone decides.                             *)
JoinsAny(event, claim) == FALSE
(* The oldest observation, of an unknown round, must not bring known rounds   *)
(* together that differ.                                                    *)
JoinsRounds(event, claim) ==
    LET known == RoundsOf(event, {"initial", "incomplete", "same_facts"}) IN
    \/ Cardinality(known) > 1
    \/ Disclosed(claim.round) /\ known \ {claim.round} # {}

MatchingEvents(r) ==
    {e \in DOMAIN lineup :
        /\ StillOpen(lineup[e])
        /\ \E i \in Anchors(lineup[e]) :
              LET relation == Association(lineup[e].rows[i], Observed(r, "initial", FALSE)) IN
              /\ relation # "unlinked"
              /\ relation = "compatible_evidence" => ~JoinsRounds(lineup[e], ClaimOf[r])}

(* What is said differently of the same round is kept beside it.             *)
KindIn(event, r) ==
    LET i == CHOOSE j \in Anchors(event) : TRUE
        old == ClaimOf[event.rows[i].report]  new == ClaimOf[r]
    IN  IF new.corrects THEN "correction_candidate"
        ELSE IF DiffersFrom(old.amount, new.amount) \/ Disjoint(old.investors, new.investors)
                \/ DiffersFrom(old.occurred, new.occurred)
        THEN "conflicting" ELSE "same_facts"
KindAlone(r, unclear) ==
    IF unclear \/ ClaimOf[r].several \/ ~Disclosed(ClaimOf[r].round) \/ ~Disclosed(ClaimOf[r].day)
    THEN "incomplete" ELSE "initial"

FiledReport(r) == \E e \in DOMAIN lineup : \E i \in DOMAIN lineup[e].rows :
    lineup[e].rows[i].report = r

FilingFree == \A v \in Filers : filer[v] = FilerFree

(* The lock is taken and the events are read; a report is filed once, also in *)
(* an event that was retracted since.                                       *)
ReadEvents(w, r) ==
    /\ FilingFree
    /\ ~FiledReport(r)
    /\ LET found == MatchingEvents(r)  alone == Cardinality(found) # 1 IN
       filer' = [filer EXCEPT ![w] =
           [step |-> "filing",
            event |-> IF alone THEN 0 ELSE CHOOSE e \in found : TRUE,
            row |-> IF alone THEN Observed(r, KindAlone(r, found # {}), found # {})
                    ELSE Observed(r, KindIn(lineup[CHOOSE e \in found : TRUE], r), FALSE)]]
    /\ UNCHANGED <<lineup, hidden>>

FileReport(w) ==
    /\ filer[w].step = "filing"
    /\ lineup' = IF filer[w].event = 0
                 THEN Append(lineup, [status |-> "candidate", rows |-> <<filer[w].row>>])
                 ELSE [lineup EXCEPT ![filer[w].event].rows = Append(@, filer[w].row)]
    /\ filer' = [filer EXCEPT ![w] = FilerFree]
    /\ UNCHANGED hidden

LoseFiling(w) ==
    /\ filer[w].step = "filing"
    /\ filer' = [filer EXCEPT ![w] = FilerFree]
    /\ UNCHANGED <<lineup, hidden>>

(* Without the lock: an administrator, an operator.                          *)
RetractFinancing(e) ==
    /\ lineup[e].status = "published"
    /\ lineup' = [lineup EXCEPT ![e].status = "retracted"]
    /\ UNCHANGED <<hidden, filer>>
HideReport(r) ==
    /\ FiledReport(r) /\ r \notin hidden /\ Cardinality(hidden) < WithdrawalMax
    /\ hidden' = hidden \cup {r}
    /\ UNCHANGED <<lineup, filer>>

FinancingNext ==
    \/ \E w \in Filers :
          \/ \E r \in Reports : ReadEvents(w, r)
          \/ FileReport(w) \/ LoseFiling(w)
    \/ \E e \in DOMAIN lineup : RetractFinancing(e)
    \/ \E r \in Reports \cup CuratedRecords : HideReport(r)

FinancingSpec == FinancingInit /\ [][FinancingNext]_financingVars

-----------------------------------------------------------------------------
FinancingTypeOK ==
    /\ \A e \in DOMAIN lineup :
          /\ lineup[e].status \in {"candidate", "published", "retracted"}
          /\ \A i \in DOMAIN lineup[e].rows :
                /\ lineup[e].rows[i].report \in Reports \cup CuratedRecords
                /\ lineup[e].rows[i].kind \in {"curated", "initial", "incomplete", "same_facts",
                                               "conflicting", "correction_candidate"}
    /\ hidden \subseteq Reports \cup CuratedRecords
    /\ \A w \in Filers : filer[w].step \in {"idle", "filing"}

(* A report is evidence of one event, and an event shows evidence of one      *)
(* known round, however many reports of unknown rounds lie between, whatever  *)
(* was withdrawn meanwhile and whoever files at the same time.  The exception *)
(* is an event that once had a conflicting or correcting report: such a       *)
(* report, left alone by withdrawals, carries its round on, and the check     *)
(* against bridges does not look at it.                                     *)
(* (persist_financing_document: one observation per document)                *)
OneRoundEach ==
    /\ \A e, f \in DOMAIN lineup : \A i \in DOMAIN lineup[e].rows, j \in DOMAIN lineup[f].rows :
          lineup[e].rows[i].report = lineup[f].rows[j].report => e = f /\ i = j
    /\ \A e \in DOMAIN lineup :
          (\A i \in DOMAIN lineup[e].rows :
              lineup[e].rows[i].kind \notin {"conflicting", "correction_candidate"}) =>
          Cardinality(RoundsOf(lineup[e], {"curated", "initial", "incomplete", "same_facts"})) <= 1

(* The reports that an event displays never disclose two different rounds.    *)
(* (financing_storage.py:222: the earliest observation, without a round, must  *)
(* not become a bridge between rounds that are known to differ)               *)
RoundsNeverJoined ==
    \A e \in DOMAIN lineup :
        Cardinality(RoundsOf(lineup[e], {lineup[e].rows[i].kind : i \in DOMAIN lineup[e].rows})) <= 1
=============================================================================
