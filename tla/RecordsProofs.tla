---------------------------- MODULE RecordsProofs ----------------------------
(* What the records of the platform keep: the admission of a member's         *)
(* requests (Entitlements), reviewed award notices (TenderRecords), the calls  *)
(* and cancellations of identity requests (IdentityResearch), the spacing of checks *)
(* (WatchSchedule), matters and what was struck of them (MatterRecords) and financing rounds *)
(* (FinancingRecords), for any number of members, notices, requests, companies,  *)
(* passages and reports.                                                    *)
EXTENDS Entitlements, IdentityResearch, TenderRecords, WatchSchedule, MatterRecords,
        FinancingRecords, FiniteSetTheorems, WellFoundedInduction, TLAPS

-----------------------------------------------------------------------------
(* Numbers and finite sets of them.                                         *)

LEMMA ProductMonotone ==
    ASSUME NEW a \in Nat, NEW b \in Nat, NEW c \in Nat, a <= b
    PROVE  a * c <= b * c /\ c * a <= c * b /\ a * c \in Nat
  OBVIOUS

LEMMA QuotientBelow ==
    ASSUME NEW a \in Nat, NEW b \in Nat \ {0}
    PROVE  a \div b \in Nat /\ (a \div b) * b <= a
  OBVIOUS

LEMMA LeastOfNaturals ==
    ASSUME NEW S \in SUBSET Nat, S # {}
    PROVE  \E x \in S : \A y \in S : x <= y
<1>1. PICK x \in S : \A y \in S : ~(<<y, x>> \in OpToRel(<, Nat))
  BY NatLessThanWellFounded, WFMin
<1>2. \A y \in S : ~(y < x)
  BY <1>1 DEF OpToRel
<1>3. QED
  BY <1>2

LEMMA GreatestOfNaturals ==
    ASSUME NEW n \in Nat, NEW S \in SUBSET (1 .. n), S # {}
    PROVE  Max(S) \in S /\ \A y \in S : y <= Max(S)
<1> DEFINE mirrored == {n - s : s \in S}
<1>1. \A s \in S : s \in Nat /\ n - s \in Nat
  OBVIOUS
<1>2. mirrored \in SUBSET Nat /\ mirrored # {}
  BY <1>1
<1>3. PICK m \in mirrored : \A k \in mirrored : m <= k
  BY <1>2, LeastOfNaturals
<1>4. PICK x \in S : m = n - x
  OBVIOUS
<1>5. \A y \in S : x >= y
  BY <1>1, <1>3, <1>4
<1>6. QED
  BY <1>5 DEF Max

LEMMA IntervalGrows ==
    ASSUME NEW n \in Nat
    PROVE  /\ IsFiniteSet(1 .. n) /\ Cardinality(1 .. n) = n
           /\ (1 .. n) \cup {1 + n} = 1 .. (1 + n) /\ 1 + n \notin 1 .. n
<1>1. IsFiniteSet(1 .. n) /\ Cardinality(1 .. n) = IF 1 > n THEN 0 ELSE n - 1 + 1
  BY FS_Interval
<1>2. Cardinality(1 .. n) = n
  BY <1>1
<1>3. (1 .. n) \cup {1 + n} = 1 .. (1 + n) /\ 1 + n \notin 1 .. n
  OBVIOUS
<1>4. QED
  BY <1>1, <1>2, <1>3

-----------------------------------------------------------------------------
(* Entitlements: requests and raises are numbered without gaps.              *)

PetitionRows ==
    [status : PetitionCancellable \cup {"absent", "cancelled", "closed"},
     target : Targets \cup {NoTarget}, at : Nat, used : Nat, calls : BOOLEAN, voided : BOOLEAN]
RaiseRows == [status : {"absent", "pending", "approved", "rejected"}, until : Nat]
SubmissionRows == [doing : {"idle", "checked"}, target : Targets \cup {NoTarget}, now : Nat]

MemberShape ==
    /\ petition \in [Petitions -> PetitionRows]
    /\ raise \in [Raises -> RaiseRows]
    /\ submission \in [Submissions -> SubmissionRows]
    /\ memberClock \in Nat
    /\ \A s \in Submissions : submission[s].now <= memberClock

Numbered ==
    /\ \E n \in Nat : n <= PetitionMax /\ Made = 1 .. n
    /\ \E n \in Nat : n <= RaiseMax /\ MadeRaises = 1 .. n

(* The extras that were ever in force at or after a time.                    *)
InForceAfter(first) == {r \in Raises : raise[r].status = "approved" /\ raise[r].until > first}
Ever(first) == RaiseExtra * Cardinality(InForceAfter(first))

CooldownsKept ==
    \A p, q \in Made :
        p < q /\ petition[p].target = petition[q].target =>
            /\ petition[q].at >= petition[p].at + RequestCooldown
            /\ petition[p].status \notin PetitionActive
DaysKept == \A day \in Nat : Cardinality(UsedOn(day)) <= DailyBase + Ever(day * DayLength)
MonthsKept ==
    \A month \in Nat :
        Cardinality(UsedIn(month)) <= MonthlyBase + Ever(month * DaysPerMonth * DayLength)

MemberInv == MemberShape /\ Numbered /\ CooldownsKept /\ DaysKept /\ MonthsKept

LEMMA MemberNumbers ==
    /\ PetitionMax \in Nat /\ RaiseMax \in Nat /\ DailyBase \in Nat /\ MonthlyBase \in Nat
    /\ RaiseExtra \in Nat /\ MemberClockEnd \in Nat
    /\ DayLength \in Nat \ {0} /\ DaysPerMonth \in Nat \ {0} /\ RequestCooldown \in Nat \ {0}
  BY EntitlementAssumption

LEMMA RaisesFinite ==
    ASSUME NEW first
    PROVE  IsFiniteSet(InForceAfter(first)) /\ Cardinality(InForceAfter(first)) \in Nat
           /\ Ever(first) \in Nat
<1>1. IsFiniteSet(Raises)
  BY MemberNumbers, IntervalGrows DEF Raises
<1>2. IsFiniteSet(InForceAfter(first)) /\ Cardinality(InForceAfter(first)) \in Nat
  BY <1>1, FS_Subset, FS_CardinalityType DEF InForceAfter
<1>3. QED
  BY <1>2, MemberNumbers DEF Ever

LEMMA UsedFinite ==
    ASSUME NEW T \in SUBSET Petitions
    PROVE  IsFiniteSet(T) /\ Cardinality(T) \in Nat
<1>1. IsFiniteSet(Petitions)
  BY MemberNumbers, IntervalGrows DEF Petitions
<1>2. QED
  BY <1>1, FS_Subset, FS_CardinalityType

LEMMA MemberBegins == EntitlementInit => MemberInv
<1> SUFFICES ASSUME EntitlementInit PROVE MemberInv
  OBVIOUS
<1>1. MemberShape
  BY DEF EntitlementInit, MemberShape, NoPetition, NoRaise, NoSubmission, PetitionRows, RaiseRows,
         SubmissionRows
<1>2. Made = {} /\ MadeRaises = {}
  BY DEF EntitlementInit, Made, MadeRaises, NoPetition, NoRaise
<1>3. Numbered
  <2>1. 0 \in Nat /\ 0 <= PetitionMax /\ 0 <= RaiseMax /\ {} = 1 .. 0
    BY MemberNumbers
  <2>2. QED
    BY <1>2, <2>1 DEF Numbered
<1>4. Cardinality({}) = 0
  BY FS_EmptySet
<1>5. DaysKept
  BY <1>2, <1>4, MemberNumbers, RaisesFinite DEF DaysKept, UsedOn
<1>6. MonthsKept
  BY <1>2, <1>4, MemberNumbers, RaisesFinite DEF MonthsKept, UsedIn
<1>7. QED
  BY <1>1, <1>2, <1>3, <1>5, <1>6 DEF MemberInv, CooldownsKept

(* A request moves: what was counted of it stays, but for its voiding, and it *)
(* does not become active again.                                            *)
RequestMoves(p, row) ==
    /\ petition' = [petition EXCEPT ![p] = row] /\ UNCHANGED <<raise, submission, memberClock>>
    /\ row \in PetitionRows /\ row.status # "absent"
    /\ row.target = petition[p].target /\ row.at = petition[p].at /\ row.used = petition[p].used
    /\ petition[p].voided => row.voided
    /\ row.status \in PetitionActive => petition[p].status \in PetitionActive

LEMMA MovesKeepMember ==
    ASSUME MemberInv, NEW p \in Petitions, NEW row, RequestMoves(p, row),
           petition[p].status # "absent"
    PROVE  MemberInv'
<1>1. MemberShape /\ MemberShape'
  BY DEF MemberInv, MemberShape, RequestMoves
<1>2. petition'[p] = row /\ \A q \in Petitions \ {p} : petition'[q] = petition[q]
  BY <1>1 DEF MemberShape, RequestMoves
<1>3. Made' = Made /\ MadeRaises' = MadeRaises
  BY <1>2 DEF Made, MadeRaises, RequestMoves
<1>4. Numbered'
  BY <1>3 DEF MemberInv, Numbered
<1>5. CooldownsKept'
  BY <1>2, <1>3 DEF MemberInv, CooldownsKept, RequestMoves, Made
<1>6. \A first : Ever(first)' = Ever(first)
  BY DEF Ever, InForceAfter, RequestMoves
<1>7. \A day : UsedOn(day)' = UsedOn(day)
  BY <1>2, <1>3 DEF UsedOn, RequestMoves, Made, Day
<1>8. DaysKept'
  BY <1>6, <1>7 DEF MemberInv, DaysKept
<1>9. MonthsKept'
  <2> SUFFICES ASSUME NEW month \in Nat
               PROVE  Cardinality(UsedIn(month)')
                        <= MonthlyBase + Ever(month * DaysPerMonth * DayLength)'
    BY DEF MonthsKept
  <2>1. UsedIn(month)' \in SUBSET UsedIn(month) /\ UsedIn(month) \in SUBSET Petitions
    BY <1>2, <1>3 DEF UsedIn, RequestMoves, Made, Month, Day
  <2>2. Cardinality(UsedIn(month)') <= Cardinality(UsedIn(month))
    BY <2>1, UsedFinite, FS_Subset
  <2>3. Cardinality(UsedIn(month)) <= MonthlyBase + Ever(month * DaysPerMonth * DayLength)
    BY DEF MemberInv, MonthsKept
  <2>4. Cardinality(UsedIn(month)) \in Nat /\ Cardinality(UsedIn(month)') \in Nat
    BY <2>1, UsedFinite
  <2>5. QED
    BY <1>6, <2>2, <2>3, <2>4, MemberNumbers, RaisesFinite
<1>10. QED
  BY <1>1, <1>4, <1>5, <1>8, <1>9 DEF MemberInv

PetitionOf(status, row, calls, voided) ==
    [status |-> status, target |-> row.target, at |-> row.at, used |-> row.used,
     calls |-> calls, voided |-> voided]

LEMMA PetitionRow ==
    ASSUME NEW row \in PetitionRows, NEW status
    PROVE  [row EXCEPT !.status = status] = PetitionOf(status, row, row.calls, row.voided)
<1>1. row = PetitionOf(row.status, row, row.calls, row.voided)
  BY DEF PetitionRows, PetitionOf
<1>2. QED
  BY <1>1 DEF PetitionOf

LEMMA RowsMove ==
    ASSUME MemberInv, NEW p \in Petitions, petition[p].status # "absent",
           NEW status \in PetitionCancellable \cup {"cancelled", "closed"},
           NEW calls \in BOOLEAN, NEW voided \in BOOLEAN,
           status \in PetitionActive => petition[p].status \in PetitionActive,
           petition[p].voided => voided,
           petition' = [petition EXCEPT ![p] = PetitionOf(status, petition[p], calls, voided)],
           UNCHANGED <<raise, submission, memberClock>>
    PROVE  MemberInv'
<1>1. PICK row : row = PetitionOf(status, petition[p], calls, voided)
  OBVIOUS
<1>2. petition[p] \in PetitionRows
  BY DEF MemberInv, MemberShape
<1>3. /\ row \in PetitionRows /\ row.status = status /\ row.target = petition[p].target
      /\ row.at = petition[p].at /\ row.used = petition[p].used /\ row.voided = voided
  BY <1>1, <1>2 DEF PetitionRows, PetitionOf
<1>4. row.status # "absent"
  BY <1>3 DEF PetitionCancellable, PetitionActive
<1>5. petition' = [petition EXCEPT ![p] = row]
  BY <1>1
<1>6. RequestMoves(p, row)
  BY <1>3, <1>4, <1>5 DEF RequestMoves
<1>7. QED
  BY <1>6, MovesKeepMember

LEMMA CancelKeepsMember ==
    ASSUME MemberInv, NEW p \in Petitions, CancelPetition(p)
    PROVE  MemberInv'
<1>1. petition[p] \in PetitionRows /\ petition[p].status \in PetitionCancellable
      /\ petition = [q \in Petitions |-> petition[q]]
  BY DEF CancelPetition, MemberInv, MemberShape
<1>2. petition[p].status # "absent"
  BY <1>1 DEF PetitionCancellable, PetitionActive
<1>3. petition[p].calls \in BOOLEAN /\ petition[p].voided \in BOOLEAN
  BY <1>1 DEF PetitionRows
<1>4. CASE petition[p].status = "checking"
  <2>1. petition' = [petition EXCEPT ![p] =
            PetitionOf("cancel_requested", petition[p], petition[p].calls, petition[p].voided)]
    BY <1>1, <1>4, PetitionRow DEF CancelPetition
  <2>2. "cancel_requested" \in PetitionCancellable /\ petition[p].status \in PetitionActive
    BY <1>4 DEF PetitionActive, PetitionCancellable
  <2>3. UNCHANGED <<raise, submission, memberClock>>
    BY DEF CancelPetition
  <2>4. QED
    BY <1>2, <1>3, <2>1, <2>2, <2>3, RowsMove
<1>5. CASE petition[p].status # "checking"
  <2>1. PICK voided \in BOOLEAN : voided = (petition[p].voided \/ ~petition[p].calls)
    OBVIOUS
  <2>2. petition' = [petition EXCEPT ![p] =
            [petition[p] EXCEPT !.status = "cancelled", !.voided = voided]]
    BY <1>5, <2>1 DEF CancelPetition
  <2>3. petition' = [petition EXCEPT ![p] =
            PetitionOf("cancelled", petition[p], petition[p].calls, voided)]
    <3>1. petition[p] = PetitionOf(petition[p].status, petition[p], petition[p].calls,
                                   petition[p].voided)
      BY <1>1 DEF PetitionRows, PetitionOf
    <3>2. [petition[p] EXCEPT !.status = "cancelled", !.voided = voided]
            = [[petition[p] EXCEPT !.status = "cancelled"] EXCEPT !.voided = voided]
      BY <3>1 DEF PetitionOf
    <3>3. [petition[p] EXCEPT !.status = "cancelled"]
            = PetitionOf("cancelled", petition[p], petition[p].calls, petition[p].voided)
      BY <1>1, PetitionRow
    <3>4. [PetitionOf("cancelled", petition[p], petition[p].calls, petition[p].voided)
              EXCEPT !.voided = voided]
            = PetitionOf("cancelled", petition[p], petition[p].calls, voided)
      BY DEF PetitionOf
    <3>5. [petition[p] EXCEPT !.status = "cancelled", !.voided = voided]
            = PetitionOf("cancelled", petition[p], petition[p].calls, voided)
      BY <3>2, <3>3, <3>4
    <3>6. QED
      BY <2>2, <3>5, Zenon
  <2>4. "cancelled" \notin PetitionActive
    BY DEF PetitionActive
  <2>5. petition[p].voided => voided
    BY <2>1
  <2>6. UNCHANGED <<raise, submission, memberClock>>
    BY DEF CancelPetition
  <2>7. PICK status \in PetitionCancellable \cup {"cancelled", "closed"} : status = "cancelled"
    OBVIOUS
  <2>8. (status \in PetitionActive => petition[p].status \in PetitionActive)
        /\ petition' = [petition EXCEPT ![p] =
               PetitionOf(status, petition[p], petition[p].calls, voided)]
    BY <2>3, <2>4, <2>7
  <2>9. QED
    BY <1>2, <1>3, <2>5, <2>6, <2>8, RowsMove
<1>6. QED
  BY <1>4, <1>5

LEMMA WorkKeepsMember ==
    ASSUME MemberInv, NEW p \in Petitions, StartStep(p) \/ EndStep(p) \/ ClosePetition(p)
    PROVE  MemberInv'
<1>1. petition[p] \in PetitionRows /\ petition = [q \in Petitions |-> petition[q]]
  BY DEF MemberInv, MemberShape
<1>2. petition[p].calls \in BOOLEAN /\ petition[p].voided \in BOOLEAN
  BY <1>1 DEF PetitionRows
<1>3. CASE StartStep(p)
  <2>0. PICK called \in BOOLEAN : called = TRUE
    OBVIOUS
  <2>1. petition' = [petition EXCEPT ![p] = [petition[p] EXCEPT !.status = "checking",
                                                               !.calls = called]]
    BY <1>1, <1>3, <2>0 DEF StartStep
  <2>2. petition' = [petition EXCEPT ![p] =
            PetitionOf("checking", petition[p], called, petition[p].voided)]
    <3>1. petition[p] = PetitionOf(petition[p].status, petition[p], petition[p].calls,
                                   petition[p].voided)
      BY <1>1 DEF PetitionRows, PetitionOf
    <3>2. [petition[p] EXCEPT !.status = "checking", !.calls = called]
            = [[petition[p] EXCEPT !.status = "checking"] EXCEPT !.calls = called]
      BY <3>1 DEF PetitionOf
    <3>3. [petition[p] EXCEPT !.status = "checking"]
            = PetitionOf("checking", petition[p], petition[p].calls, petition[p].voided)
      BY <1>1, PetitionRow
    <3>4. [PetitionOf("checking", petition[p], petition[p].calls, petition[p].voided)
              EXCEPT !.calls = called]
            = PetitionOf("checking", petition[p], called, petition[p].voided)
      BY DEF PetitionOf
    <3>5. [petition[p] EXCEPT !.status = "checking", !.calls = called]
            = PetitionOf("checking", petition[p], called, petition[p].voided)
      BY <3>2, <3>3, <3>4
    <3>6. QED
      BY <2>1, <3>5, Zenon
  <2>3. /\ petition[p].status # "absent" /\ petition[p].status \in PetitionActive
        /\ "checking" \in PetitionCancellable /\ called \in BOOLEAN
    BY <1>3, <2>0 DEF StartStep, PetitionActive, PetitionCancellable
  <2>4. UNCHANGED <<raise, submission, memberClock>>
    BY <1>3 DEF StartStep
  <2>5. QED
    BY <1>2, <2>2, <2>3, <2>4, RowsMove
<1>4. CASE EndStep(p)
  <2>1. PICK status \in {"queued", "needs_input", "closed", "cancelled"} :
            /\ petition' = [petition EXCEPT ![p] = [petition[p] EXCEPT !.status = status]]
            /\ petition[p].status \in {"checking", "cancel_requested"}
    BY <1>1, <1>4 DEF EndStep
  <2>2. petition' = [petition EXCEPT ![p] =
            PetitionOf(status, petition[p], petition[p].calls, petition[p].voided)]
    BY <1>1, <2>1, PetitionRow
  <2>3. /\ petition[p].status # "absent" /\ petition[p].status \in PetitionActive
        /\ status \in PetitionCancellable \cup {"cancelled", "closed"}
    BY <2>1 DEF PetitionActive, PetitionCancellable
  <2>4. UNCHANGED <<raise, submission, memberClock>>
    BY <1>4 DEF EndStep
  <2>5. QED
    BY <1>2, <2>2, <2>3, <2>4, RowsMove
<1>5. CASE ClosePetition(p)
  <2>1. PICK void \in BOOLEAN :
            petition' = [petition EXCEPT ![p].status = "closed",
                            ![p].voided = @ \/ (void /\ ~petition[p].calls)]
    BY <1>5 DEF ClosePetition
  <2>2. PICK voided \in BOOLEAN : voided = (petition[p].voided \/ (void /\ ~petition[p].calls))
    OBVIOUS
  <2>3. petition' = [petition EXCEPT ![p] = [petition[p] EXCEPT !.status = "closed",
                                                               !.voided = voided]]
    BY <1>1, <2>1, <2>2
  <2>4. petition' = [petition EXCEPT ![p] =
            PetitionOf("closed", petition[p], petition[p].calls, voided)]
    <3>1. petition[p] = PetitionOf(petition[p].status, petition[p], petition[p].calls,
                                   petition[p].voided)
      BY <1>1 DEF PetitionRows, PetitionOf
    <3>2. [petition[p] EXCEPT !.status = "closed", !.voided = voided]
            = [[petition[p] EXCEPT !.status = "closed"] EXCEPT !.voided = voided]
      BY <3>1 DEF PetitionOf
    <3>3. [petition[p] EXCEPT !.status = "closed"]
            = PetitionOf("closed", petition[p], petition[p].calls, petition[p].voided)
      BY <1>1, PetitionRow
    <3>4. [PetitionOf("closed", petition[p], petition[p].calls, petition[p].voided)
              EXCEPT !.voided = voided]
            = PetitionOf("closed", petition[p], petition[p].calls, voided)
      BY DEF PetitionOf
    <3>5. [petition[p] EXCEPT !.status = "closed", !.voided = voided]
            = PetitionOf("closed", petition[p], petition[p].calls, voided)
      BY <3>2, <3>3, <3>4
    <3>6. QED
      BY <2>3, <3>5, Zenon
  <2>5. "closed" \notin PetitionActive /\ petition[p].status # "absent"
    BY <1>5 DEF ClosePetition, PetitionActive
  <2>6. petition[p].voided => voided
    BY <2>2
  <2>7. UNCHANGED <<raise, submission, memberClock>>
    BY <1>5 DEF ClosePetition
  <2>8. PICK status \in PetitionCancellable \cup {"cancelled", "closed"} : status = "closed"
    OBVIOUS
  <2>9. (status \in PetitionActive => petition[p].status \in PetitionActive)
        /\ petition' = [petition EXCEPT ![p] =
               PetitionOf(status, petition[p], petition[p].calls, voided)]
    BY <2>4, <2>5, <2>8
  <2>10. QED
    BY <1>2, <2>5, <2>6, <2>7, <2>9, RowsMove
<1>6. QED
  BY <1>3, <1>4, <1>5

(* A submission that is admitted: the newest request for its target is over,  *)
(* and one more request fits.                                               *)
LEMMA SubmissionKeepsMember ==
    ASSUME MemberInv, NEW s \in Submissions, EndSubmission(s)
    PROVE  MemberInv'
<1> DEFINE target == submission[s].target
           now == submission[s].now
           next == 1 + Cardinality(Made)
           row == [status |-> "queued", target |-> target, at |-> memberClock, used |-> now,
                   calls |-> FALSE, voided |-> FALSE]
<1>1. submission[s] \in SubmissionRows /\ now \in Nat /\ now <= memberClock /\ memberClock \in Nat
      /\ target \in Targets \cup {NoTarget}
  BY DEF MemberInv, MemberShape, SubmissionRows
<1>2. NoSubmission \in SubmissionRows /\ NoSubmission.now = 0
  BY DEF NoSubmission, SubmissionRows
<1>3. submission' \in [Submissions -> SubmissionRows]
      /\ \A r \in Submissions : submission'[r].now <= memberClock'
  BY <1>1, <1>2 DEF EndSubmission, MemberInv, MemberShape
<1>4. CASE UNCHANGED petition
  BY <1>3, <1>4 DEF EndSubmission, MemberInv, MemberShape, Numbered, CooldownsKept, DaysKept,
     MonthsKept, Made, MadeRaises, Ever, InForceAfter, UsedOn, UsedIn, Day, Month
<1>5. CASE /\ MayPetition(target, now) /\ next \in Petitions
           /\ petition' = [petition EXCEPT ![next] = row]
  <2>1. PICK n \in Nat : n <= PetitionMax /\ Made = 1 .. n
    BY DEF MemberInv, Numbered
  <2>2. next = 1 + n /\ next \notin Made /\ Made \cup {next} = 1 .. (1 + n) /\ IsFiniteSet(Made)
    BY <2>1, IntervalGrows
  <2>3. row \in PetitionRows
    BY <1>1 DEF PetitionRows, PetitionCancellable, PetitionActive
  <2>4. petition'[next] = row /\ \A p \in Petitions \ {next} : petition'[p] = petition[p]
    BY <1>5 DEF MemberInv, MemberShape
  <2>5. MemberShape'
    BY <1>3, <1>5, <2>3 DEF EndSubmission, MemberInv, MemberShape
  <2>6. row.status = "queued" /\ row.target = target /\ row.at = memberClock /\ row.used = now
        /\ ~row.voided
    OBVIOUS
  <2> HIDE DEF row, next, target, now
  <2>7. Made' = Made \cup {next}
    BY <1>5, <2>4, <2>6 DEF Made
  <2>8. Numbered'
    <3>1. next \in Nat /\ next <= PetitionMax /\ Made' = 1 .. next
      BY <1>5, <2>1, <2>2, <2>7, MemberNumbers DEF Petitions
    <3>2. MadeRaises' = MadeRaises
      BY DEF EndSubmission, MadeRaises
    <3>3. QED
      BY <3>1, <3>2 DEF MemberInv, Numbered
  <2>9. \A p \in MadeFor(target) :
            /\ petition[p].at + RequestCooldown <= now
            /\ petition[p].status \notin PetitionActive
    <3>1. SUFFICES ASSUME NEW p \in MadeFor(target) PROVE petition[p].at + RequestCooldown <= now
      BY <1>5 DEF MayPetition
    <3>2. MadeFor(target) \in SUBSET (1 .. n) /\ MadeFor(target) # {}
      BY <2>1, <3>1 DEF MadeFor
    <3>3. PICK newest \in MadeFor(target) : newest = Max(MadeFor(target)) /\ p <= newest
      BY <3>2, GreatestOfNaturals
    <3>4. ~(petition[newest].at + RequestCooldown > now)
      BY <1>5, <3>2, <3>3 DEF MayPetition, Reused
    <3>5. petition[newest].at \in Nat /\ petition[p].at \in Nat
      BY <3>3 DEF MadeFor, Made, MemberInv, MemberShape, PetitionRows
    <3>6. CASE p = newest
      BY <1>1, <3>4, <3>5, <3>6, MemberNumbers
    <3>7. CASE p # newest
      <4>1. p < newest /\ p \in Made /\ newest \in Made
            /\ petition[p].target = petition[newest].target
        BY <3>2, <3>3, <3>7 DEF MadeFor
      <4>2. petition[newest].at >= petition[p].at + RequestCooldown
        BY <4>1 DEF MemberInv, CooldownsKept
      <4>3. QED
        BY <1>1, <3>4, <3>5, <4>2, MemberNumbers
    <3>8. QED
      BY <3>6, <3>7
  <2>10. CooldownsKept'
    <3>1. SUFFICES ASSUME NEW p \in Made', NEW q \in Made', p < q,
                          petition'[p].target = petition'[q].target
                   PROVE  /\ petition'[q].at >= petition'[p].at + RequestCooldown
                          /\ petition'[p].status \notin PetitionActive
      BY DEF CooldownsKept
    <3>2. p \in Made /\ p # next /\ p \in Petitions
      BY <2>1, <2>2, <2>7, <3>1 DEF Made
    <3>3. petition'[p] = petition[p]
      BY <2>4, <3>2
    <3>4. CASE q = next
      <4>1. p \in MadeFor(target)
        BY <2>4, <2>6, <3>1, <3>2, <3>3, <3>4 DEF MadeFor
      <4>2. petition[p].at \in Nat
        BY <3>2 DEF MemberInv, MemberShape, PetitionRows
      <4>3. QED
        BY <1>1, <2>4, <2>6, <2>9, <3>3, <3>4, <4>1, <4>2, MemberNumbers
    <3>5. CASE q # next
      BY <2>4, <2>7, <3>1, <3>2, <3>3, <3>5 DEF MemberInv, CooldownsKept, Made
    <3>6. QED
      BY <3>4, <3>5
  <2>11. \A first : Ever(first)' = Ever(first)
    BY DEF EndSubmission, Ever, InForceAfter
  \* the extras in force now are among those ever in force since the day began
  <2>12. \A first \in Nat : first <= now => Extra(now) <= Ever(first)
    <3>1. SUFFICES ASSUME NEW first \in Nat, first <= now PROVE Extra(now) <= Ever(first)
      OBVIOUS
    <3>2. InForceAfter(now) \in SUBSET InForceAfter(first)
      BY <1>1, <3>1 DEF InForceAfter, MemberInv, MemberShape, RaiseRows
    <3>3. Cardinality(InForceAfter(now)) <= Cardinality(InForceAfter(first))
      BY <3>2, RaisesFinite, FS_Subset
    <3>4. Extra(now) = RaiseExtra * Cardinality(InForceAfter(now))
      BY DEF Extra, InForceAfter
    <3>5. QED
      BY <3>3, <3>4, RaisesFinite, MemberNumbers, ProductMonotone DEF Ever
  <2>13. DaysKept'
    <3>1. SUFFICES ASSUME NEW day \in Nat
                   PROVE  Cardinality(UsedOn(day)') <= DailyBase + Ever(day * DayLength)
      BY <2>11 DEF DaysKept
    <3>2. UsedOn(day) \in SUBSET Petitions
      BY DEF UsedOn, Made
    <3>3. IsFiniteSet(UsedOn(day)) /\ Cardinality(UsedOn(day)) \in Nat /\ next \notin UsedOn(day)
      BY <2>2, <3>2, UsedFinite DEF UsedOn
    <3>4. Cardinality(UsedOn(day)) <= DailyBase + Ever(day * DayLength)
      BY DEF MemberInv, DaysKept
    <3>5. CASE day = Day(now)
      <4>1. UsedOn(day)' = UsedOn(day) \cup {next}
        BY <2>2, <2>4, <2>6, <2>7, <3>5 DEF UsedOn, Day, Made
      <4>2. Cardinality(UsedOn(day)') = Cardinality(UsedOn(day)) + 1
        BY <3>3, <4>1, FS_AddElement
      <4>3. day * DayLength \in Nat /\ day * DayLength <= now
        BY <1>1, <3>5, QuotientBelow, MemberNumbers DEF Day
      <4>4. Cardinality(UsedOn(day)) < DailyBase + Extra(now)
        BY <1>5, <3>5 DEF MayPetition
      <4>5. Extra(now) \in Nat
        BY RaisesFinite DEF Extra, Ever, InForceAfter
      <4>6. QED
        BY <2>12, <3>3, <4>2, <4>3, <4>4, <4>5, MemberNumbers, RaisesFinite
    <3>6. CASE day # Day(now)
      <4>1. UsedOn(day)' = UsedOn(day)
        BY <2>2, <2>4, <2>6, <2>7, <3>6 DEF UsedOn, Day, Made
      <4>2. QED
        BY <3>4, <4>1
    <3>7. QED
      BY <3>5, <3>6
  <2>14. MonthsKept'
    <3>1. SUFFICES ASSUME NEW month \in Nat
                   PROVE  Cardinality(UsedIn(month)')
                            <= MonthlyBase + Ever(month * DaysPerMonth * DayLength)
      BY <2>11 DEF MonthsKept
    <3>2. UsedIn(month) \in SUBSET Petitions
      BY DEF UsedIn, Made
    <3>3. IsFiniteSet(UsedIn(month)) /\ Cardinality(UsedIn(month)) \in Nat
          /\ next \notin UsedIn(month)
      BY <2>2, <3>2, UsedFinite DEF UsedIn
    <3>4. Cardinality(UsedIn(month)) <= MonthlyBase + Ever(month * DaysPerMonth * DayLength)
      BY DEF MemberInv, MonthsKept
    <3>5. CASE month = Month(now)
      <4>1. UsedIn(month)' = UsedIn(month) \cup {next}
        BY <2>2, <2>4, <2>6, <2>7, <3>5 DEF UsedIn, Month, Day, Made
      <4>2. Cardinality(UsedIn(month)') = Cardinality(UsedIn(month)) + 1
        BY <3>3, <4>1, FS_AddElement
      <4>3. PICK day \in Nat : day = Day(now) /\ day * DayLength <= now
        BY <1>1, QuotientBelow, MemberNumbers DEF Day
      <4>4. month * DaysPerMonth \in Nat /\ month * DaysPerMonth <= day
        BY <3>5, <4>3, QuotientBelow, MemberNumbers DEF Month
      <4>5. month * DaysPerMonth * DayLength \in Nat /\ month * DaysPerMonth * DayLength <= now
        BY <1>1, <4>3, <4>4, ProductMonotone, MemberNumbers
      <4>6. Cardinality(UsedIn(month)) < MonthlyBase + Extra(now)
        BY <1>5, <3>5 DEF MayPetition
      <4>7. Extra(now) \in Nat
        BY RaisesFinite DEF Extra, Ever, InForceAfter
      <4>8. Extra(now) <= Ever(month * DaysPerMonth * DayLength)
        BY <2>12, <4>5
      <4>9. QED
        BY <3>3, <4>2, <4>6, <4>7, <4>8, MemberNumbers, RaisesFinite
    <3>6. CASE month # Month(now)
      <4>1. UsedIn(month)' = UsedIn(month)
        BY <2>2, <2>4, <2>6, <2>7, <3>6 DEF UsedIn, Month, Day, Made
      <4>2. QED
        BY <3>4, <4>1
    <3>7. QED
      BY <3>5, <3>6
  <2>15. QED
    BY <2>5, <2>8, <2>10, <2>13, <2>14 DEF MemberInv
<1>6. QED
  BY <1>4, <1>5 DEF EndSubmission

RaiseOf(status, until) == [status |-> status, until |-> until]

LEMMA RaiseKeepsMember ==
    ASSUME MemberInv, AskRaise \/ \E r \in Raises : DecideRaise(r)
    PROVE  MemberInv'
<1>1. /\ MemberShape /\ UNCHANGED <<petition, submission, memberClock>>
      /\ MemberClockEnd + 1 \in Nat
  BY MemberNumbers DEF MemberInv, AskRaise, DecideRaise
\* what is approved stays approved, so that the extras only grow
<1>2. /\ raise' \in [Raises -> RaiseRows]
      /\ \E n \in Nat : n <= RaiseMax /\ MadeRaises' = 1 .. n
      /\ \A r \in Raises : raise[r].status = "approved" => raise'[r] = raise[r]
  <2>1. CASE AskRaise
    <3>1. PICK n \in Nat : n <= RaiseMax /\ MadeRaises = 1 .. n
      BY DEF MemberInv, Numbered
    <3>2. PICK next \in Raises :
              /\ next = 1 + Cardinality(MadeRaises)
              /\ raise' = [raise EXCEPT ![next].status = "pending"]
      BY <2>1 DEF AskRaise
    <3>3. next = 1 + n /\ next \notin MadeRaises /\ MadeRaises \cup {next} = 1 .. next
      BY <3>1, <3>2, IntervalGrows
    <3>4. raise[next].status = "absent"
      BY <3>2, <3>3 DEF MadeRaises
    <3>5. raise[next] = RaiseOf("absent", raise[next].until) /\ raise[next].until \in Nat
      BY <1>1, <3>2, <3>4 DEF MemberShape, RaiseRows, RaiseOf
    <3>6. [raise[next] EXCEPT !.status = "pending"] = RaiseOf("pending", raise[next].until)
      BY <3>5 DEF RaiseOf
    <3>7. raise' = [raise EXCEPT ![next] = RaiseOf("pending", raise[next].until)]
      BY <1>1, <3>2, <3>6 DEF MemberShape
    <3>8. RaiseOf("pending", raise[next].until) \in RaiseRows
          /\ RaiseOf("pending", raise[next].until).status = "pending"
      BY <3>5 DEF RaiseRows, RaiseOf
    <3>9. raise' \in [Raises -> RaiseRows] /\ raise'[next].status = "pending"
          /\ \A r \in Raises \ {next} : raise'[r] = raise[r]
      BY <1>1, <3>2, <3>7, <3>8 DEF MemberShape
    <3>10. MadeRaises' = MadeRaises \cup {next}
      BY <3>2, <3>9 DEF MadeRaises
    <3>11. next \in Nat /\ next <= RaiseMax
      BY <3>2, MemberNumbers DEF Raises
    <3>12. QED
      BY <3>3, <3>4, <3>9, <3>10, <3>11
  <2>2. CASE \E r \in Raises : DecideRaise(r)
    <3>1. PICK r \in Raises : DecideRaise(r)
      BY <2>2
    <3>2. raise[r] = RaiseOf("pending", raise[r].until) /\ raise[r].until \in Nat
      BY <1>1, <3>1 DEF DecideRaise, MemberShape, RaiseRows, RaiseOf
    <3>3. [raise[r] EXCEPT !.status = "rejected"] = RaiseOf("rejected", raise[r].until)
      BY <3>2 DEF RaiseOf
    <3>4. \E status \in {"approved", "rejected"}, until \in Nat :
              raise' = [raise EXCEPT ![r] = RaiseOf(status, until)]
      <4>1. CASE raise' = [raise EXCEPT ![r].status = "rejected"]
        <5>1. raise' = [raise EXCEPT ![r] = RaiseOf("rejected", raise[r].until)]
          BY <1>1, <3>3, <4>1 DEF MemberShape
        <5>2. QED
          BY <3>2, <5>1
      <4>2. CASE \E until \in (memberClock + 1) .. (MemberClockEnd + 1) :
                     raise' = [raise EXCEPT ![r] = [status |-> "approved", until |-> until]]
        <5>1. PICK until \in (memberClock + 1) .. (MemberClockEnd + 1) :
                  raise' = [raise EXCEPT ![r] = RaiseOf("approved", until)]
          BY <4>2 DEF RaiseOf
        <5>2. until \in Nat
          BY <1>1, <5>1 DEF MemberShape
        <5>3. QED
          BY <5>1, <5>2
      <4>3. QED
        BY <3>1, <4>1, <4>2 DEF DecideRaise
    <3>5. PICK row : row \in RaiseRows /\ row.status # "absent"
                     /\ raise' = [raise EXCEPT ![r] = row]
      <4>1. PICK status \in {"approved", "rejected"}, until \in Nat :
                raise' = [raise EXCEPT ![r] = RaiseOf(status, until)]
        BY <3>4
      <4>2. RaiseOf(status, until) \in RaiseRows /\ RaiseOf(status, until).status # "absent"
        BY DEF RaiseOf, RaiseRows
      <4>3. QED
        BY <4>1, <4>2
    <3>6. raise' \in [Raises -> RaiseRows] /\ raise'[r] = row
          /\ \A q \in Raises \ {r} : raise'[q] = raise[q]
      BY <1>1, <3>5 DEF MemberShape
    <3>7. raise[r].status = "pending"
      BY <3>1 DEF DecideRaise
    <3>8. MadeRaises' = MadeRaises
      BY <3>5, <3>6, <3>7 DEF MadeRaises
    <3>9. QED
      BY <3>6, <3>7, <3>8 DEF MemberInv, Numbered
  <2>3. QED
    BY <2>1, <2>2
<1>3. \A first : Ever(first) <= Ever(first)'
  <2> TAKE first
  <2>1. InForceAfter(first) \in SUBSET InForceAfter(first)'
    BY <1>2 DEF InForceAfter
  <2>2. IsFiniteSet(InForceAfter(first)') /\ Cardinality(InForceAfter(first)') \in Nat
    <3>1. IsFiniteSet(Raises) /\ InForceAfter(first)' \in SUBSET Raises
      <4>1. IsFiniteSet(1 .. RaiseMax)
        BY MemberNumbers, IntervalGrows
      <4>2. QED
        BY <4>1 DEF Raises, InForceAfter
    <3>2. QED
      BY <3>1, FS_Subset, FS_CardinalityType
  <2>3. Cardinality(InForceAfter(first)) <= Cardinality(InForceAfter(first)')
    BY <2>1, <2>2, FS_Subset
  <2>4. QED
    BY <2>2, <2>3, RaisesFinite, MemberNumbers, ProductMonotone DEF Ever
<1>4. \A first : Ever(first)' \in Nat
  <2> TAKE first
  <2>1. IsFiniteSet(Raises) /\ InForceAfter(first)' \in SUBSET Raises
    <3>1. IsFiniteSet(1 .. RaiseMax)
      BY MemberNumbers, IntervalGrows
    <3>2. QED
      BY <3>1 DEF Raises, InForceAfter
  <2>2. Cardinality(InForceAfter(first)') \in Nat
    BY <2>1, FS_Subset, FS_CardinalityType
  <2>3. QED
    BY <2>2, MemberNumbers DEF Ever
<1>5. /\ \A day : UsedOn(day)' = UsedOn(day)
      /\ \A month : UsedIn(month)' = UsedIn(month)
      /\ Made' = Made
  BY <1>1 DEF UsedOn, UsedIn, Made, Day, Month
<1>6. \A day : Cardinality(UsedOn(day)) \in Nat /\ Cardinality(UsedIn(day)) \in Nat
  BY UsedFinite DEF UsedOn, UsedIn, Made
<1>7. DaysKept'
  BY <1>3, <1>4, <1>5, <1>6, RaisesFinite, MemberNumbers DEF MemberInv, DaysKept
<1>8. MonthsKept'
  BY <1>3, <1>4, <1>5, <1>6, RaisesFinite, MemberNumbers DEF MemberInv, MonthsKept
<1>9. MemberShape' /\ Numbered' /\ CooldownsKept'
  BY <1>1, <1>2, <1>5 DEF MemberInv, MemberShape, Numbered, CooldownsKept
<1>10. QED
  BY <1>7, <1>8, <1>9 DEF MemberInv

LEMMA MemberStep == MemberInv /\ [EntitlementNext]_memberVars => MemberInv'
<1> SUFFICES ASSUME MemberInv, [EntitlementNext]_memberVars PROVE MemberInv'
  OBVIOUS
<1>1. ASSUME UNCHANGED petition, UNCHANGED raise, MemberShape' PROVE MemberInv'
  BY <1>1 DEF MemberInv, Numbered, CooldownsKept, DaysKept, MonthsKept, Made, MadeRaises, Ever,
     InForceAfter, UsedOn, UsedIn, Day, Month
<1>2. ASSUME NEW s \in Submissions, NEW target \in Targets, BeginSubmission(s, target)
      PROVE  MemberInv'
  <2>1. [doing |-> "checked", target |-> target, now |-> memberClock] \in SubmissionRows
    BY DEF MemberInv, MemberShape, SubmissionRows
  <2>2. MemberShape'
    BY <1>2, <2>1 DEF BeginSubmission, MemberInv, MemberShape
  <2>3. QED
    BY <1>1, <1>2, <2>2 DEF BeginSubmission
<1>3. CASE MemberTick
  <2>1. MemberShape'
    BY <1>3 DEF MemberTick, MemberInv, MemberShape, SubmissionRows
  <2>2. QED
    BY <1>1, <1>3, <2>1 DEF MemberTick
<1>4. CASE UNCHANGED memberVars
  BY <1>1, <1>4 DEF memberVars, MemberInv, MemberShape
<1>5. QED
  BY <1>2, <1>3, <1>4, SubmissionKeepsMember, CancelKeepsMember, WorkKeepsMember, RaiseKeepsMember
  DEF EntitlementNext

(* Requests for one target are a cooldown apart with only the last one active, *)
(* and a day's and a month's usage stays within the allowance and the extras,  *)
(* however many submissions race.  (_create_company_request under the lock of  *)
(* the user row)                                                            *)
THEOREM RequestsAreAdmitted == EntitlementSpec => []RequestsAdmitted
<1>1. MemberInv => RequestsAdmitted
  <2> SUFFICES ASSUME MemberInv PROVE RequestsAdmitted
    OBVIOUS
  <2>1. \A first : Ever(first) = RaiseExtra * Cardinality({r \in Raises :
                            raise[r].status = "approved" /\ raise[r].until > first})
    BY DEF Ever, InForceAfter
  <2>2. \A day \in Nat : Cardinality(UsedOn(day)) <= DailyBase + Ever(day * DayLength)
    BY DEF MemberInv, DaysKept
  <2>3. \A month \in Nat : Cardinality(UsedIn(month))
            <= MonthlyBase + Ever(month * DaysPerMonth * DayLength)
    BY DEF MemberInv, MonthsKept
  <2>4. 0 .. Day(MemberClockEnd) \in SUBSET Nat /\ 0 .. Month(MemberClockEnd) \in SUBSET Nat
    OBVIOUS
  <2>5. QED
    BY <2>1, <2>2, <2>3, <2>4 DEF RequestsAdmitted, MemberInv, CooldownsKept
<1>2. QED
  BY <1>1, MemberBegins, MemberStep, PTL DEF EntitlementSpec

-----------------------------------------------------------------------------
(* Identity research: the rows of the requests, the workers' clock.           *)

InquiryRows ==
    [status : InquiryStatuses, cancel : BOOLEAN, lease : Nat, company : BOOLEAN, valid : BOOLEAN]

IdentityShape ==
    /\ inquiry \in [Inquiries -> InquiryRows]
    /\ desk = [d \in Desks |-> desk[d]]
    /\ seeker = [w \in IdentityWorkers |-> seeker[w]]
    /\ \A w \in IdentityWorkers : seeker[w].at \in Inquiries /\ seeker[w].since \in Nat
    /\ identityClock \in Nat

InquiryRow(status, cancel, lease, company, valid) ==
    [status |-> status, cancel |-> cancel, lease |-> lease, company |-> company, valid |-> valid]

LEMMA InquiryWrites ==
    ASSUME NEW row \in InquiryRows, NEW status, NEW lease, NEW company \in BOOLEAN
    PROVE  /\ [row EXCEPT !.status = status]
                = InquiryRow(status, row.cancel, row.lease, row.company, row.valid)
           /\ [row EXCEPT !.lease = lease]
                = InquiryRow(row.status, row.cancel, lease, row.company, row.valid)
           /\ [row EXCEPT !.company = company]
                = InquiryRow(row.status, row.cancel, row.lease, company, row.valid)
<1>1. row = InquiryRow(row.status, row.cancel, row.lease, row.company, row.valid)
  BY DEF InquiryRows, InquiryRow
<1>2. QED
  BY <1>1 DEF InquiryRow

(* What a worker saves: a cancellation wins.                                *)
LEMMA SavedInquiry ==
    ASSUME NEW i, inquiry[i] \in InquiryRows, NEW status \in InquiryStatuses, NEW found \in BOOLEAN
    PROVE  /\ SavedRow(i, status, found) \in InquiryRows
           /\ CancelAsked(i) => SavedRow(i, status, found).status = "cancelled"
<1> DEFINE row == inquiry[i]
<1>1. PICK after : after = IF CancelAsked(i) THEN "cancelled" ELSE status
  OBVIOUS
<1>2. PICK company \in BOOLEAN : company = (row.company \/ (found /\ ~CancelAsked(i)))
  OBVIOUS
<1>3. /\ after \in InquiryStatuses /\ (CancelAsked(i) => after = "cancelled")
  BY <1>1 DEF InquiryStatuses
<1>4. SavedRow(i, status, found) = [[[row EXCEPT !.status = after] EXCEPT !.company = company]
                                         EXCEPT !.lease = 0]
  BY <1>1, <1>2 DEF SavedRow, InquiryRows
<1>5. [row EXCEPT !.status = after]
        = InquiryRow(after, row.cancel, row.lease, row.company, row.valid)
  BY InquiryWrites
<1>6. [InquiryRow(after, row.cancel, row.lease, row.company, row.valid) EXCEPT !.company = company]
        = InquiryRow(after, row.cancel, row.lease, company, row.valid)
  BY DEF InquiryRow
<1>7. [InquiryRow(after, row.cancel, row.lease, company, row.valid) EXCEPT !.lease = 0]
        = InquiryRow(after, row.cancel, 0, company, row.valid)
  BY DEF InquiryRow
<1>8. SavedRow(i, status, found) = InquiryRow(after, row.cancel, 0, company, row.valid)
  BY <1>4, <1>5, <1>6, <1>7
<1>9. QED
  BY <1>3, <1>8 DEF InquiryRow, InquiryRows

KeepsCancelled ==
    \A i \in Inquiries :
        inquiry[i].status = "cancelled" /\ desk' = desk => inquiry'[i].status = "cancelled"

LEMMA RowReplaced ==
    ASSUME IdentityShape, NEW i \in Inquiries, NEW row \in InquiryRows,
           inquiry' = [inquiry EXCEPT ![i] = row],
           inquiry[i].status = "cancelled" => row.status = "cancelled"
    PROVE  inquiry' \in [Inquiries -> InquiryRows] /\ KeepsCancelled
  BY DEF IdentityShape, KeepsCancelled

LEMMA SaveKeepsShape ==
    ASSUME IdentityShape, NEW i \in Inquiries, NEW notes, NEW status \in InquiryStatuses,
           NEW found \in BOOLEAN, Save(i, notes, status, found),
           inquiry[i].status = "cancelled" => CancelAsked(i)
    PROVE  inquiry' \in [Inquiries -> InquiryRows] /\ KeepsCancelled
<1>1. inquiry[i] \in InquiryRows
  BY DEF IdentityShape
<1>2. PICK row : row = SavedRow(i, status, found)
  OBVIOUS
<1>3. row \in InquiryRows /\ (CancelAsked(i) => row.status = "cancelled")
  BY <1>1, <1>2, SavedInquiry
<1>4. inquiry' = [inquiry EXCEPT ![i] = row]
  BY <1>2 DEF Save
<1>5. QED
  BY <1>3, <1>4, RowReplaced

LEMMA TakeKeepsShape ==
    ASSUME IdentityShape, NEW w \in IdentityWorkers, NEW i \in Inquiries, TakeInquiry(w, i)
    PROVE  IdentityShape' /\ KeepsCancelled
<1>1. inquiry[i] \in InquiryRows /\ inquiry[i].status # "cancelled"
  BY DEF IdentityShape, TakeInquiry, Selectable, Waiting
<1>2. inquiry' \in [Inquiries -> InquiryRows] /\ KeepsCancelled
  <2>1. {"cancelled", "needs_input", "research_queued", "in_review", "identity_queued"}
            \in SUBSET InquiryStatuses
    BY DEF InquiryStatuses, Cancellable, Waiting
  <2>2. CASE \E status \in {"cancelled", "needs_input", "research_queued", "in_review",
                            "identity_queued"}, found \in BOOLEAN, notes \in {OwnDossier(i),
                            Notes(i), [Notes(i) EXCEPT !.index = @ + 1]} :
                Save(i, notes, status, found)
    BY <1>1, <2>1, <2>2, SaveKeepsShape
  <2>3. CASE WaitForOlder(i)
    <3>1. PICK lease \in Nat : lease = identityClock + CoalesceWait
      BY IdentityAssumption DEF IdentityShape
    <3>2. PICK row : row = [inquiry[i] EXCEPT !.lease = lease]
      OBVIOUS
    <3>3. row = InquiryRow(inquiry[i].status, inquiry[i].cancel, lease, inquiry[i].company,
                           inquiry[i].valid)
      BY <1>1, <3>2, InquiryWrites
    <3>4. row \in InquiryRows
      BY <1>1, <3>3 DEF InquiryRow, InquiryRows
    <3>5. inquiry' = [inquiry EXCEPT ![i] = row]
      BY <2>3, <3>1, <3>2 DEF WaitForOlder, IdentityShape
    <3>6. QED
      BY <1>1, <3>4, <3>5, RowReplaced
  <2>4. CASE ReserveCall(w, i)
    BY <2>4 DEF ReserveCall, IdentityShape, KeepsCancelled
  <2>5. QED
    BY <2>2, <2>3, <2>4 DEF TakeInquiry, EndCancelled, AskForInput, UseKnownCompany, Interrupted,
       Conflicting, Admit, Exhausted, SkipCandidate, DeferCall
<1>3. \A v \in IdentityWorkers : seeker'[v].at \in Inquiries /\ seeker'[v].since \in Nat
  <2>1. CASE UNCHANGED seeker
    BY <2>1 DEF IdentityShape
  <2>2. CASE ReserveCall(w, i)
    BY <2>2 DEF ReserveCall, IdentityShape
  <2>3. QED
    BY <2>1, <2>2 DEF TakeInquiry, EndCancelled, AskForInput, WaitForOlder, UseKnownCompany,
       Interrupted, Conflicting, Admit, Exhausted, SkipCandidate, DeferCall
<1>4. seeker' = [v \in IdentityWorkers |-> seeker'[v]]
  BY DEF TakeInquiry, EndCancelled, AskForInput, WaitForOlder, UseKnownCompany, Interrupted,
     Conflicting, Admit, Exhausted, SkipCandidate, DeferCall, ReserveCall, IdentityShape
<1>5. QED
  BY <1>2, <1>3, <1>4 DEF IdentityShape, TakeInquiry

LEMMA CallKeepsShape ==
    ASSUME IdentityShape, NEW w \in IdentityWorkers,
           CancelledBeforeCall(w) \/ DispatchCall(w) \/ AnswerCall(w) \/ SeekerStops(w)
    PROVE  IdentityShape' /\ KeepsCancelled
<1> DEFINE i == seeker[w].at
<1>1. {"cancelled", "identity_queued", "identity_checking"} \in SUBSET InquiryStatuses
  BY DEF InquiryStatuses, Cancellable, Waiting
<1>2. /\ identityClock' = identityClock /\ desk' = desk
      /\ seeker' = [v \in IdentityWorkers |-> seeker'[v]]
      /\ \A v \in IdentityWorkers : seeker'[v].at \in Inquiries /\ seeker'[v].since \in Nat
  <2>1. AtRest.since \in Nat /\ AtRest.at \in Inquiries
    BY IdentityAssumption DEF AtRest, Inquiries
  <2>2. CASE DispatchCall(w)
    <3>1. seeker' = [seeker EXCEPT ![w] = [seeker[w] EXCEPT !.doing = "calling",
                         !.notes = Marked(seeker[w]), !.since = 0]]
      BY <2>2 DEF DispatchCall, IdentityShape
    <3>2. QED
      BY <2>2, <3>1 DEF DispatchCall, IdentityShape
  <2>3. CASE seeker' = [seeker EXCEPT ![w] = AtRest]
    BY <2>1, <2>3 DEF IdentityShape, CancelledBeforeCall, AnswerCall, SeekerStops, DispatchCall
  <2>4. QED
    BY <2>2, <2>3 DEF CancelledBeforeCall, AnswerCall, SeekerStops
<1>3. inquiry' \in [Inquiries -> InquiryRows] /\ KeepsCancelled
  <2>1. i \in Inquiries
    BY DEF IdentityShape
  <2>2. CASE CancelledBeforeCall(w) \/ AnswerCall(w)
    <3>1. ASSUME CancelledBeforeCall(w) PROVE \E notes : Save(i, notes, "cancelled", FALSE)
      BY <3>1 DEF CancelledBeforeCall
    <3>2. ASSUME AnswerCall(w) PROVE \E notes : Save(i, notes, "identity_queued", FALSE)
      BY <3>2 DEF AnswerCall
    <3>3. QED
      BY <1>1, <2>1, <2>2, <3>1, <3>2, SaveKeepsShape DEF CancelAsked
  <2>3. CASE SeekerStops(w)
    BY <2>3 DEF SeekerStops, IdentityShape, KeepsCancelled
  <2>4. CASE DispatchCall(w)
    <3>1. PICK lease \in Nat : lease = seeker[w].since + IdentityLease
      BY IdentityAssumption DEF IdentityShape
    <3>2. inquiry[i] \in InquiryRows /\ inquiry[i].status # "cancelled"
      BY <2>1, <2>4 DEF IdentityShape, DispatchCall, CancelAsked
    <3>3. inquiry' = [inquiry EXCEPT ![i] = [[inquiry[i] EXCEPT !.status = "identity_checking"]
                                                  EXCEPT !.lease = lease]]
      BY <2>1, <2>4, <3>1, <3>2 DEF DispatchCall, IdentityShape
    <3>4. [inquiry[i] EXCEPT !.status = "identity_checking"]
            = InquiryRow("identity_checking", inquiry[i].cancel, inquiry[i].lease,
                         inquiry[i].company, inquiry[i].valid)
      BY <3>2, InquiryWrites
    <3>5. PICK row : row = InquiryRow("identity_checking", inquiry[i].cancel, lease,
                                      inquiry[i].company, inquiry[i].valid)
      OBVIOUS
    <3>6. [InquiryRow("identity_checking", inquiry[i].cancel, inquiry[i].lease,
                      inquiry[i].company, inquiry[i].valid) EXCEPT !.lease = lease] = row
      BY <3>5 DEF InquiryRow
    <3>7. inquiry' = [inquiry EXCEPT ![i] = row]
      BY <3>3, <3>4, <3>6, Zenon
    <3>8. row \in InquiryRows
      BY <1>1, <3>2, <3>5 DEF InquiryRow, InquiryRows
    <3>9. QED
      BY <2>1, <3>2, <3>7, <3>8, RowReplaced
  <2>5. QED
    BY <2>1, <2>2, <2>3, <2>4
<1>4. QED
  BY <1>2, <1>3 DEF IdentityShape

LEMMA AskingKeepsShape ==
    ASSUME IdentityShape, NEW i \in Inquiries,
           CancelInquiry(i) \/ \E valid \in BOOLEAN : Inquire(i, valid)
    PROVE  IdentityShape' /\ KeepsCancelled
<1>1. inquiry[i] \in InquiryRows /\ inquiry[i].status # "cancelled"
  BY DEF IdentityShape, CancelInquiry, Inquire, Cancellable, Waiting
<1>2. \E row \in InquiryRows : inquiry' = [inquiry EXCEPT ![i] = row]
  <2>1. PICK was : was = inquiry[i]
    OBVIOUS
  <2>2. was = InquiryRow(was.status, was.cancel, was.lease, was.company, was.valid)
        /\ was \in InquiryRows
    BY <1>1, <2>1 DEF InquiryRows, InquiryRow
  <2>3. CASE \E valid \in BOOLEAN : Inquire(i, valid)
    <3>1. PICK valid \in BOOLEAN :
              inquiry' = [inquiry EXCEPT ![i] = [[inquiry[i] EXCEPT !.status = "pending"]
                                                      EXCEPT !.valid = valid]]
      BY <1>1, <2>3 DEF Inquire, IdentityShape
    <3>2. [[was EXCEPT !.status = "pending"] EXCEPT !.valid = valid]
            = InquiryRow("pending", was.cancel, was.lease, was.company, valid)
      <4>1. [was EXCEPT !.status = "pending"]
              = InquiryRow("pending", was.cancel, was.lease, was.company, was.valid)
        BY <2>2, InquiryWrites
      <4>2. [InquiryRow("pending", was.cancel, was.lease, was.company, was.valid)
                EXCEPT !.valid = valid]
              = InquiryRow("pending", was.cancel, was.lease, was.company, valid)
        BY DEF InquiryRow
      <4>3. QED
        BY <4>1, <4>2
    <3>3. InquiryRow("pending", was.cancel, was.lease, was.company, valid) \in InquiryRows
      BY <2>2 DEF InquiryRow, InquiryRows, InquiryStatuses, Cancellable, Waiting
    <3>4. QED
      BY <2>1, <3>1, <3>2, <3>3, Zenon
  <2>4. CASE CancelInquiry(i) /\ was.status = "identity_checking"
    <3>1. inquiry' = [inquiry EXCEPT ![i] = [[inquiry[i] EXCEPT !.cancel = TRUE]
                                                  EXCEPT !.status = "cancel_requested"]]
      BY <1>1, <2>1, <2>4 DEF CancelInquiry, IdentityShape
    <3>2. PICK yes \in BOOLEAN : yes = TRUE
      OBVIOUS
    <3>3. [[was EXCEPT !.cancel = yes] EXCEPT !.status = "cancel_requested"]
            = InquiryRow("cancel_requested", yes, was.lease, was.company, was.valid)
      <4>1. [was EXCEPT !.cancel = yes]
              = InquiryRow(was.status, yes, was.lease, was.company, was.valid)
        BY <2>2 DEF InquiryRow
      <4>2. [InquiryRow(was.status, yes, was.lease, was.company, was.valid)
                EXCEPT !.status = "cancel_requested"]
              = InquiryRow("cancel_requested", yes, was.lease, was.company, was.valid)
        BY DEF InquiryRow
      <4>3. QED
        BY <4>1, <4>2
    <3>4. InquiryRow("cancel_requested", yes, was.lease, was.company, was.valid) \in InquiryRows
      BY <2>2 DEF InquiryRow, InquiryRows, InquiryStatuses, Cancellable, Waiting
    <3>5. QED
      BY <2>1, <3>1, <3>2, <3>3, <3>4, Zenon
  <2>5. CASE CancelInquiry(i) /\ was.status # "identity_checking"
    <3>1. inquiry' = [inquiry EXCEPT ![i] = [[[inquiry[i] EXCEPT !.cancel = TRUE]
                                  EXCEPT !.status = "cancelled"] EXCEPT !.lease = 0]]
      BY <1>1, <2>1, <2>5 DEF CancelInquiry, IdentityShape
    <3>2. PICK yes \in BOOLEAN : yes = TRUE
      OBVIOUS
    <3>3. [[[was EXCEPT !.cancel = yes] EXCEPT !.status = "cancelled"] EXCEPT !.lease = 0]
            = InquiryRow("cancelled", yes, 0, was.company, was.valid)
      <4>1. [was EXCEPT !.cancel = yes]
              = InquiryRow(was.status, yes, was.lease, was.company, was.valid)
        BY <2>2 DEF InquiryRow
      <4>2. [InquiryRow(was.status, yes, was.lease, was.company, was.valid)
                EXCEPT !.status = "cancelled"]
              = InquiryRow("cancelled", yes, was.lease, was.company, was.valid)
        BY DEF InquiryRow
      <4>3. [InquiryRow("cancelled", yes, was.lease, was.company, was.valid) EXCEPT !.lease = 0]
              = InquiryRow("cancelled", yes, 0, was.company, was.valid)
        BY DEF InquiryRow
      <4>4. QED
        BY <4>1, <4>2, <4>3
    <3>4. InquiryRow("cancelled", yes, 0, was.company, was.valid) \in InquiryRows
      BY <2>2 DEF InquiryRow, InquiryRows, InquiryStatuses
    <3>5. QED
      BY <2>1, <3>1, <3>2, <3>3, <3>4, Zenon
  <2>6. QED
    BY <2>3, <2>4, <2>5
<1>3. inquiry' \in [Inquiries -> InquiryRows] /\ KeepsCancelled
  BY <1>1, <1>2, RowReplaced
<1>4. QED
  BY <1>3 DEF IdentityShape, CancelInquiry, Inquire

(* A decision that is written takes its desk.                               *)
LEMMA DeskKeepsShape ==
    ASSUME IdentityShape, NEW d \in Desks, LookAtInquiry(d) \/ DecideInquiry(d)
    PROVE  IdentityShape' /\ KeepsCancelled
<1>1. CASE LookAtInquiry(d)
  BY <1>1 DEF LookAtInquiry, IdentityShape, KeepsCancelled
<1>2. CASE DecideInquiry(d)
  <2>1. desk' # desk /\ desk' = [e \in Desks |-> desk'[e]]
    <3>1. desk[d].doing \in {"review", "approve", "network"}
      BY <1>2 DEF DecideInquiry
    <3>2. desk' = [e \in Desks |-> IF e = d THEN DeskDone ELSE desk[e]]
      BY <1>2 DEF DecideInquiry, IdentityShape
    <3>3. DeskDone.doing = "done" /\ desk'[d] = DeskDone
      BY <3>2 DEF DeskDone
    <3>4. QED
      BY <3>1, <3>2, <3>3
  <2>2. CASE UNCHANGED inquiry
    BY <1>2, <2>1, <2>2 DEF DecideInquiry, IdentityShape, KeepsCancelled
  <2>3. CASE \E status \in {"in_review", "closed", "research_queued"}, found \in BOOLEAN :
                 Rewrite(d, status, found)
    <3>1. PICK status \in {"in_review", "closed", "research_queued"}, found \in BOOLEAN :
              Rewrite(d, status, found)
      BY <2>3
    <3>2. status \in InquiryStatuses
      BY DEF InquiryStatuses, Cancellable
    <3>3. ASSUME NEW i \in Inquiries
          PROVE  [inquiry[i] EXCEPT !.status = status, !.company = inquiry[i].company \/ found]
                    \in InquiryRows
      <4>1. PICK was \in InquiryRows : was = inquiry[i]
        BY DEF IdentityShape
      <4>2. PICK company \in BOOLEAN : company = (was.company \/ found)
        OBVIOUS
      <4>3. [was EXCEPT !.status = status, !.company = company]
              = [[was EXCEPT !.status = status] EXCEPT !.company = company]
        BY DEF InquiryRows
      <4>4. [was EXCEPT !.status = status]
              = InquiryRow(status, was.cancel, was.lease, was.company, was.valid)
        BY InquiryWrites
      <4>5. [InquiryRow(status, was.cancel, was.lease, was.company, was.valid)
                EXCEPT !.company = company]
              = InquiryRow(status, was.cancel, was.lease, company, was.valid)
        BY DEF InquiryRow
      <4>6. InquiryRow(status, was.cancel, was.lease, company, was.valid) \in InquiryRows
        BY <3>2 DEF InquiryRow, InquiryRows
      <4>7. [was EXCEPT !.status = status, !.company = company] \in InquiryRows
        BY <4>3, <4>4, <4>5, <4>6
      <4>8. QED
        BY <4>1, <4>2, <4>7, Zenon
    <3>4. inquiry' \in [Inquiries -> InquiryRows]
      BY <3>1, <3>3 DEF Rewrite, IdentityShape
    <3>5. QED
      BY <1>2, <2>1, <3>4 DEF DecideInquiry, IdentityShape, KeepsCancelled
  <2>4. QED
    BY <1>2, <2>2, <2>3 DEF DecideInquiry
<1>3. QED
  BY <1>1, <1>2

LEMMA IdentityShapeStep ==
    IdentityShape /\ [IdentityNext]_identityVars => IdentityShape' /\ KeepsCancelled
<1> SUFFICES ASSUME IdentityShape, [IdentityNext]_identityVars
             PROVE  IdentityShape' /\ KeepsCancelled
  OBVIOUS
<1>1. CASE IdentityTick
  BY <1>1 DEF IdentityTick, IdentityShape, KeepsCancelled
<1>2. CASE UNCHANGED identityVars
  BY <1>2 DEF identityVars, IdentityShape, KeepsCancelled
<1>3. CASE IdentityNext /\ ~IdentityTick
  BY <1>3, TakeKeepsShape, CallKeepsShape, AskingKeepsShape, DeskKeepsShape DEF IdentityNext
<1>4. QED
  BY <1>1, <1>2, <1>3

LEMMA IdentityBegins == IdentityInit => IdentityShape
<1> SUFFICES ASSUME IdentityInit PROVE IdentityShape
  OBVIOUS
<1>1. PICK first \in {"absent", "closed"} :
          inquiry = [i \in Inquiries |->
              [status |-> IF i = 1 THEN first ELSE "absent", cancel |-> FALSE, lease |-> 0,
               company |-> FALSE, valid |-> TRUE]]
  BY DEF IdentityInit
<1>2. inquiry \in [Inquiries -> InquiryRows]
  BY <1>1 DEF InquiryRows, InquiryStatuses
<1>3. \A w \in IdentityWorkers : seeker[w] = AtRest
  BY DEF IdentityInit
<1>4. AtRest.at \in Inquiries /\ AtRest.since \in Nat
  BY IdentityAssumption DEF AtRest, Inquiries
<1>5. desk = [d \in Desks |-> desk[d]] /\ seeker = [w \in IdentityWorkers |-> seeker[w]]
      /\ identityClock \in Nat
  BY DEF IdentityInit
<1>6. QED
  BY <1>2, <1>3, <1>4, <1>5 DEF IdentityShape

(* No worker reopens a cancelled request, however many of them had it reserved  *)
(* or called for it; only a decision on rows read before may.  (_save reads     *)
(* the cancellation again under the row lock)                                *)
THEOREM CancelledStays == IdentitySpec => WorkersKeepCancellation
<1>1. IdentityShape /\ [IdentityNext]_identityVars
        => [\A i \in Inquiries :
               inquiry[i].status = "cancelled" /\ desk' = desk
                  => inquiry'[i].status = "cancelled"]_identityVars
  BY IdentityShapeStep DEF KeepsCancelled
<1>2. QED
  BY <1>1, IdentityBegins, IdentityShapeStep, PTL DEF IdentitySpec, WorkersKeepCancellation

-----------------------------------------------------------------------------
(* One call of a request at a time: what the notes of a request hold, and what  *)
(* its workers have copied of them.                                          *)

LEMMA GreatestOfFinite ==
    ASSUME NEW S \in SUBSET Nat, S # {}, IsFiniteSet(S)
    PROVE  Max(S) \in S /\ \A y \in S : y <= Max(S)
<1>1. PICK above : above = [x \in S |-> {y \in S : y > x}]
  OBVIOUS
<1>2. \A x \in S : above[x] \in SUBSET S
  BY <1>1
<1>3. \A x \in S : IsFiniteSet(above[x]) /\ Cardinality(above[x]) \in Nat
  BY <1>2, FS_Subset, FS_CardinalityType
<1>4. PICK sizes : sizes = {Cardinality(above[x]) : x \in S}
  OBVIOUS
<1>5. PICK x \in S : \A y \in S : Cardinality(above[x]) <= Cardinality(above[y])
  <2>1. sizes \in SUBSET Nat /\ sizes # {}
    BY <1>3, <1>4
  <2>2. PICK least \in sizes : \A size \in sizes : least <= size
    BY <2>1, LeastOfNaturals
  <2>3. QED
    BY <1>4, <2>2
<1>6. ASSUME NEW y \in S, y > x PROVE FALSE
  <2>1. above[y] \in SUBSET above[x] /\ y \in above[x] /\ y \notin above[y]
    <3>1. above[x] = {z \in S : z > x} /\ above[y] = {z \in S : z > y}
      BY <1>1
    <3>2. \A z \in S : z > y => z > x
      BY <1>6
    <3>3. ~(y > y)
      OBVIOUS
    <3>4. QED
      BY <1>6, <3>1, <3>2, <3>3
  <2>2. Cardinality(above[y]) <= Cardinality(above[x])
           /\ (Cardinality(above[x]) = Cardinality(above[y]) => above[x] = above[y])
    BY <1>3, <2>1, FS_Subset
  <2>3. Cardinality(above[x]) \in Nat /\ Cardinality(above[y]) \in Nat
    BY <1>3
  <2>4. QED
    BY <1>5, <2>1, <2>2, <2>3
<1>7. \A y \in S : y <= x
  BY <1>6
<1>8. QED
  BY <1>7 DEF Max

(* As many pages as one search may find.                                    *)
MostPages == Max({Len(answer) : answer \in SearchAnswers})

LEMMA AnswersBounded ==
    MostPages \in Nat /\ \A answer \in SearchAnswers : Len(answer) \in 0 .. MostPages
<1> DEFINE lengths == {Len(answer) : answer \in SearchAnswers}
<1>1. \A answer \in SearchAnswers : Len(answer) \in Nat
  BY IdentityAssumption
<1>2. [answer \in SearchAnswers |-> Len(answer)] \in Surjection(SearchAnswers, lengths)
  BY DEF Surjection
<1>3. IsFiniteSet(lengths)
  BY <1>2, IdentityAssumption, FS_Surjection
<1>4. lengths \in SUBSET Nat /\ lengths # {}
  BY <1>1, IdentityAssumption
<1>5. Max(lengths) \in lengths /\ \A y \in lengths : y <= Max(lengths)
  BY <1>3, <1>4, GreatestOfFinite
<1>6. QED
  BY <1>1, <1>4, <1>5 DEF MostPages

Notebook ==
    [row : Nat, known : BOOLEAN, copied : BOOLEAN, inFlight : BOOLEAN, searches : Nat,
     pages : Seq({"match", "other"}), index : Nat, lastSearch : Nat, fetches : Int,
     finding : {"none", "corroborated", "conflict"}]

(* The pages are those of the searches made.                                *)
Searched(n, searches) ==
    /\ n.searches = 0 => n.pages = <<>> /\ n.index = 0
    /\ n.searches <= SearchMax
    /\ Len(n.pages) <= searches * MostPages
Notebooks == {n \in Notebook : (n.known => n.row > 0) /\ Searched(n, n.searches)}

Seekers ==
    [doing : {"idle", "reserved", "calling"}, at : Inquiries, notes : Notebooks, token : Tokens,
     calls : Int, since : Nat]

CallStates == {"none", "reserved", "in_flight", "uncertain", "settled", "released"}

SeekShape ==
    /\ dossier \in [Inquiries -> Notebooks]
    /\ callState \in [Inquiries -> [Tokens -> CallStates]]
    /\ seeker \in [IdentityWorkers -> Seekers]
    /\ \A i \in Inquiries :
          inquiry[i].status \in {"cancelled", "cancel_requested"} => inquiry[i].cancel

LEMMA NoteWrites ==
    ASSUME NEW n \in Notebook, NEW row \in Nat
    PROVE  /\ [n EXCEPT !.row = row] \in Notebook
           /\ [n EXCEPT !.known = TRUE] \in Notebook
           /\ [n EXCEPT !.copied = TRUE, !.row = row] \in Notebook
           /\ n.known => [n EXCEPT !.known = TRUE] = n
<1>1. [n EXCEPT !.row = row] \in Notebook
  BY DEF Notebook
<1>2. [n EXCEPT !.known = TRUE] \in Notebook
  BY DEF Notebook
<1>3. [n EXCEPT !.copied = TRUE, !.row = row] \in Notebook
  BY DEF Notebook
<1>4. ASSUME n.known PROVE [n EXCEPT !.known = TRUE] = n
  BY <1>4 DEF Notebook
<1>5. QED
  BY <1>1, <1>2, <1>3, <1>4

(* The row of a dossier: a new one is above all others.                      *)
LEMMA OwnRow ==
    ASSUME SeekShape, NEW i \in Inquiries
    PROVE  /\ OwnDossier(i) \in Notebooks /\ OwnDossier(i).row > 0
           /\ OwnDossier(i).known = dossier[i].known
           /\ OwnDossier(i).copied = dossier[i].copied
           /\ OwnDossier(i).searches = dossier[i].searches
           /\ dossier[i].row > 0 => OwnDossier(i) = dossier[i]
           /\ dossier[i].row = 0 => \A j \in Inquiries : dossier[j].row < OwnDossier(i).row
<1> DEFINE rows == {dossier[j].row : j \in Inquiries}
<1>1. \A j \in Inquiries : dossier[j] \in Notebook /\ dossier[j].row \in Nat
  BY DEF SeekShape, Notebooks, Notebook
<1>2. IsFiniteSet(Inquiries)
  BY IdentityAssumption, IntervalGrows DEF Inquiries
<1>3. [j \in Inquiries |-> dossier[j].row] \in Surjection(Inquiries, rows)
  BY DEF Surjection
<1>4. rows \in SUBSET Nat /\ rows # {} /\ IsFiniteSet(rows)
  BY <1>1, <1>2, <1>3, FS_Surjection
<1>5. PICK top \in Nat : top = Max(rows) /\ \A j \in Inquiries : dossier[j].row <= top
  BY <1>4, GreatestOfFinite
<1>6. CASE dossier[i].row > 0
  BY <1>6 DEF OwnDossier, SeekShape
<1>7. CASE dossier[i].row = 0
  <2>1. PICK n : n = [dossier[i] EXCEPT !.row = 1 + top]
    OBVIOUS
  <2>2. OwnDossier(i) = n
    BY <1>5, <1>7, <2>1 DEF OwnDossier
  <2>3. n \in Notebook
    <3>1. 1 + top \in Nat
      OBVIOUS
    <3>2. QED
      BY <1>1, <2>1, <3>1, NoteWrites
  <2>4. /\ n.row = 1 + top /\ n.known = dossier[i].known /\ n.copied = dossier[i].copied
        /\ n.searches = dossier[i].searches /\ n.pages = dossier[i].pages
        /\ n.index = dossier[i].index
    BY <1>1, <2>1 DEF Notebook
  <2>5. n \in Notebooks /\ n.row > 0
    BY <2>3, <2>4 DEF Notebooks, Searched, SeekShape
  <2>6. \A j \in Inquiries : dossier[j].row < n.row
    BY <1>1, <1>5, <2>4
  <2>7. QED
    BY <1>7, <2>2, <2>4, <2>5, <2>6
<1>8. QED
  BY <1>1, <1>6, <1>7

(* An equal request whose dossier is the newest and holds notes.            *)
Newest(i, j) == dossier[j].row > 0 /\ \A k \in Equal(i) : dossier[k].row <= dossier[j].row
Copyable(i) == \E j \in Equal(i) : Newest(i, j) /\ dossier[j].known
Fresh(n) == n.searches = 0 /\ ~n.copied

RowsApart ==
    \A i \in Inquiries : \A j \in Inquiries \ {i} :
        dossier[i].row > 0 => dossier[i].row # dossier[j].row

LEMMA NotesRead ==
    ASSUME SeekShape, RowsApart, NEW i \in Inquiries
    PROVE  /\ Notes(i) \in Notebooks /\ Notes(i).known /\ Notes(i).row = OwnDossier(i).row
           /\ Fresh(dossier[i]) /\ Copyable(i) => Notes(i).copied
           /\ ~(Fresh(dossier[i]) /\ Copyable(i))
                => /\ Notes(i) = [OwnDossier(i) EXCEPT !.known = TRUE]
                   /\ dossier[i].known => Notes(i) = dossier[i]
<1> DEFINE rows == {j \in Equal(i) : dossier[j].row > 0}
           latest == CHOOSE j \in rows : \A k \in rows : dossier[k].row <= dossier[j].row
<1>1. \A j \in Inquiries : dossier[j] \in Notebook /\ dossier[j].row \in Nat
  BY DEF SeekShape, Notebooks, Notebook
<1>2. rows \in SUBSET Inquiries
  BY DEF Equal
<1>3. ASSUME rows # {}
      PROVE  latest \in rows /\ \A k \in rows : dossier[k].row <= dossier[latest].row
  <2> DEFINE numbers == {dossier[j].row : j \in rows}
  <2>1. IsFiniteSet(rows)
    <3>1. IsFiniteSet(Inquiries)
      BY IdentityAssumption, IntervalGrows DEF Inquiries
    <3>2. QED
      BY <1>2, <3>1, FS_Subset
  <2>2. [j \in rows |-> dossier[j].row] \in Surjection(rows, numbers)
    BY DEF Surjection
  <2>3. numbers \in SUBSET Nat /\ numbers # {} /\ IsFiniteSet(numbers)
    BY <1>1, <1>2, <1>3, <2>1, <2>2, FS_Surjection
  <2>4. Max(numbers) \in numbers /\ \A y \in numbers : y <= Max(numbers)
    BY <2>3, GreatestOfFinite
  <2>5. \E j \in rows : \A k \in rows : dossier[k].row <= dossier[j].row
    BY <2>4
  <2>6. QED
    BY <2>5
<1>4. ASSUME rows # {}
      PROVE  latest \in Equal(i) /\ Newest(i, latest)
  <2>1. \A k \in Equal(i) : k \in Inquiries /\ (k \notin rows => dossier[k].row = 0)
    BY <1>1 DEF Equal
  <2>2. QED
    BY <1>1, <1>2, <1>3, <1>4, <2>1 DEF Newest
<1>5. Copyable(i) <=> (rows # {} /\ dossier[latest].known)
  <2>1. ASSUME NEW j \in Equal(i), Newest(i, j), dossier[j].known
        PROVE  rows # {} /\ dossier[latest].known
    <3>1. j \in rows /\ j \in Inquiries
      BY <2>1 DEF Newest, Equal
    <3>2. latest \in Equal(i) /\ Newest(i, latest) /\ latest \in Inquiries
      BY <3>1, <1>4 DEF Equal
    <3>3. dossier[j].row = dossier[latest].row
      BY <1>1, <2>1, <3>1, <3>2 DEF Newest
    <3>4. j = latest
      BY <2>1, <3>1, <3>2, <3>3 DEF RowsApart, Newest
    <3>5. QED
      BY <2>1, <3>1, <3>4
  <2>2. QED
    BY <1>4, <2>1 DEF Copyable
<1>6. PICK own : own = OwnDossier(i)
  OBVIOUS
<1>7. /\ own \in Notebooks /\ own.row > 0 /\ own \in Notebook /\ own.row \in Nat
      /\ Fresh(own) = Fresh(dossier[i]) /\ own.known = dossier[i].known
      /\ dossier[i].row > 0 => own = dossier[i]
  BY <1>6, OwnRow DEF Fresh, Notebooks, Notebook
<1>8. CASE Fresh(dossier[i]) /\ Copyable(i)
  <2>1. PICK previous : previous = dossier[latest]
    OBVIOUS
  <2>2. previous \in Notebooks /\ previous \in Notebook /\ previous.known
    BY <1>3, <1>2, <1>5, <1>8, <2>1 DEF SeekShape, Notebooks
  <2>3. PICK n : n = [previous EXCEPT !.copied = TRUE, !.row = own.row]
    OBVIOUS
  <2>4. Notes(i) = n
    BY <1>5, <1>6, <1>7, <1>8, <2>1, <2>2, <2>3 DEF Notes, Fresh
  <2>5. n \in Notebook
    BY <1>7, <2>2, <2>3, NoteWrites
  <2>6. /\ n.row = own.row /\ n.known = TRUE /\ n.copied = TRUE /\ n.searches = previous.searches
        /\ n.pages = previous.pages /\ n.index = previous.index
    BY <2>2, <2>3 DEF Notebook
  <2>7. n \in Notebooks
    BY <1>7, <2>2, <2>5, <2>6 DEF Notebooks, Searched
  <2>8. QED
    BY <1>6, <1>8, <2>4, <2>6, <2>7
<1>9. CASE ~(Fresh(dossier[i]) /\ Copyable(i))
  <2>1. PICK n : n = [own EXCEPT !.known = TRUE]
    OBVIOUS
  <2>2. Notes(i) = n
    BY <1>5, <1>6, <1>7, <1>9, <2>1 DEF Notes, Fresh
  <2>3. n \in Notebook /\ (own.known => n = own)
    BY <1>7, <2>1, NoteWrites
  <2>4. /\ n.row = own.row /\ n.known = TRUE /\ n.copied = own.copied
        /\ n.searches = own.searches /\ n.pages = own.pages /\ n.index = own.index
    BY <1>7, <2>1 DEF Notebook
  <2>5. n \in Notebooks
    BY <1>7, <2>3, <2>4 DEF Notebooks, Searched
  <2>6. dossier[i].known => dossier[i].row > 0
    BY DEF SeekShape, Notebooks
  <2>7. QED
    BY <1>6, <1>7, <1>9, <2>1, <2>2, <2>3, <2>4, <2>5, <2>6
<1>10. QED
  BY <1>8, <1>9

(* What a worker that waits to dispatch has read still holds, for as long as  *)
(* its reservation does.                                                    *)
Ready(w) ==
    /\ seeker[w].doing = "reserved" /\ ~inquiry[seeker[w].at].cancel
    /\ callState[seeker[w].at][seeker[w].token] = "reserved"

(* Notes that were not copied from an equal request will not be.            *)
StaysOwn(i) ==
    Fresh(dossier[i]) /\ inquiry[i].status \in Waiting =>
        /\ ~Copyable(i)
        /\ \A j \in Equal(i) : j < i /\ inquiry[j].status \in Waiting => dossier[j].known

RequestsKept ==
    /\ \A i \in Inquiries : inquiry[i].status = "absent" =>
          /\ dossier[i].row = 0
          /\ \A j \in Inquiries : i < j => inquiry[j].status = "absent"
    /\ \A d \in Desks : \A i \in Inquiries \cap desk[d].on : inquiry[i].status # "absent"

SeekerNoted(w) ==
    /\ seeker[w].notes.known /\ seeker[w].notes.row = dossier[seeker[w].at].row
    /\ dossier[seeker[w].at].known /\ inquiry[seeker[w].at].valid
    /\ callState[seeker[w].at][seeker[w].token] # "none"

ReadyToCall(w) ==
    /\ seeker[w].notes = dossier[seeker[w].at] /\ ~dossier[seeker[w].at].inFlight
    /\ seeker[w].token = NextCall(seeker[w].notes).token
    /\ ~SkipsNext(seeker[w].notes)
    /\ seeker[w].token[1] # "search" => seeker[w].notes.searches > 0
    /\ seeker[w].token[1] = "search" => seeker[w].notes.searches < SearchMax
    /\ StaysOwn(seeker[w].at)

CallMarked(w) ==
    /\ ~inquiry[seeker[w].at].cancel =>
          dossier[seeker[w].at].inFlight /\ dossier[seeker[w].at].searches > 0
    /\ seeker[w].notes.searches > 0
    /\ seeker[w].token[1] = "search" => Searched(seeker[w].notes, seeker[w].notes.searches - 1)

SeekerFine(w) ==
    /\ seeker[w].doing # "idle" => SeekerNoted(w)
    /\ Ready(w) => ReadyToCall(w)
    /\ seeker[w].doing = "calling" => CallMarked(w)

OneCallInv ==
    /\ IdentityShape /\ SeekShape /\ RowsApart /\ RequestsKept
    /\ \A w \in IdentityWorkers : SeekerFine(w)
    /\ OneIdentityCall

LEMMA SavedStatus ==
    ASSUME NEW i, inquiry[i] \in InquiryRows, NEW status, NEW found \in BOOLEAN
    PROVE  /\ SavedRow(i, status, found).cancel = inquiry[i].cancel
           /\ SavedRow(i, status, found).valid = inquiry[i].valid
           /\ SavedRow(i, status, found).status = IF CancelAsked(i) THEN "cancelled" ELSE status
<1> DEFINE row == inquiry[i]
<1>1. PICK after : after = IF CancelAsked(i) THEN "cancelled" ELSE status
  OBVIOUS
<1>2. PICK company : company = (row.company \/ (found /\ ~CancelAsked(i)))
  OBVIOUS
<1>3. SavedRow(i, status, found)
        = [row EXCEPT !.status = after, !.company = company, !.lease = 0]
  BY <1>1, <1>2 DEF SavedRow
<1>4. QED
  BY <1>1, <1>3 DEF InquiryRows

(* What a step of a worker does to the row of the request it took.          *)
RowTaken(i) ==
    /\ \A j \in Inquiries :
          /\ j # i => inquiry'[j] = inquiry[j]
          /\ inquiry'[j].cancel = inquiry[j].cancel /\ inquiry'[j].valid = inquiry[j].valid
          /\ inquiry'[j].status = "absent" => inquiry[j].status = "absent"
          /\ inquiry'[j].status \in {"cancelled", "cancel_requested"} => inquiry'[j].cancel
    /\ inquiry[i].status # "absent" => inquiry'[i].status # "absent"

LEMMA SaveTakesRow ==
    ASSUME IdentityShape, SeekShape, NEW i \in Inquiries, NEW notes, NEW found \in BOOLEAN,
           NEW status \in {"cancelled", "needs_input", "research_queued", "in_review",
                           "identity_queued"},
           Save(i, notes, status, found), status = "cancelled" => CancelAsked(i)
    PROVE  /\ RowTaken(i)
           /\ CancelAsked(i) \/ status # "identity_queued" => inquiry'[i].status \notin Waiting
<1>1. inquiry[i] \in InquiryRows
  BY DEF IdentityShape
<1>2. PICK row : row = SavedRow(i, status, found)
  OBVIOUS
<1>3. /\ row.cancel = inquiry[i].cancel /\ row.valid = inquiry[i].valid
      /\ row.status = IF CancelAsked(i) THEN "cancelled" ELSE status
  BY <1>1, <1>2, SavedStatus
<1>4. inquiry' = [inquiry EXCEPT ![i] = row]
  BY <1>2 DEF Save
<1>5. inquiry'[i] = row /\ \A j \in Inquiries : j # i => inquiry'[j] = inquiry[j]
  BY <1>4 DEF IdentityShape
<1>6. CancelAsked(i) <=> inquiry[i].cancel
  BY DEF CancelAsked, SeekShape
<1>7. QED
  BY <1>3, <1>5, <1>6 DEF RowTaken, SeekShape, Waiting

(* A step that takes a request leaves it its row, and reads on in its notes.  *)
NotesTaken(i, notes) ==
    \/ notes = OwnDossier(i)
    \/ /\ Foremost(i)
       /\ \/ notes = Notes(i)
          \/ /\ ~Notes(i).inFlight /\ SkipsNext(Notes(i))
             /\ notes = [Notes(i) EXCEPT !.index = @ + 1]

LEMMA TakeWrites ==
    ASSUME IdentityShape, SeekShape, NEW w \in IdentityWorkers, NEW i \in Inquiries,
           TakeInquiry(w, i)
    PROVE  /\ \E notes : NotesTaken(i, notes) /\ dossier' = [dossier EXCEPT ![i] = notes]
           /\ RowTaken(i) /\ (inquiry'[i].status \in Waiting => inquiry[i].status \in Waiting)
           /\ Foremost(i) => inquiry[i].status \in Waiting
<1>1. inquiry[i] \in InquiryRows /\ (CancelAsked(i) <=> inquiry[i].cancel)
  BY DEF IdentityShape, CancelAsked, SeekShape
<1>2. ASSUME ~CancelAsked(i) PROVE inquiry[i].status \in Waiting
  BY <1>2 DEF CancelAsked, TakeInquiry, Selectable
<1>3. Foremost(i) => inquiry[i].status \in Waiting
  BY <1>2 DEF Foremost, Proceeds
<1>4. CASE \E status \in {"cancelled", "needs_input", "research_queued", "in_review",
                          "identity_queued"}, found \in BOOLEAN : \E notes :
              /\ NotesTaken(i, notes) /\ Save(i, notes, status, found)
              /\ status = "cancelled" => CancelAsked(i)
  <2>1. PICK status \in {"cancelled", "needs_input", "research_queued", "in_review",
                         "identity_queued"}, found \in BOOLEAN :
           \E notes : /\ NotesTaken(i, notes) /\ Save(i, notes, status, found)
                      /\ status = "cancelled" => CancelAsked(i)
    BY <1>4
  <2>2. PICK notes : /\ NotesTaken(i, notes) /\ Save(i, notes, status, found)
                     /\ status = "cancelled" => CancelAsked(i)
    BY <2>1
  <2>3. dossier' = [dossier EXCEPT ![i] = notes]
    BY <2>2 DEF Save
  <2>4. RowTaken(i) /\ (CancelAsked(i) => inquiry'[i].status \notin Waiting)
    BY <2>2, SaveTakesRow
  <2>5. QED
    BY <1>2, <1>3, <2>2, <2>3, <2>4
<1>5. CASE WaitForOlder(i)
  <2>1. PICK row : row = [inquiry[i] EXCEPT !.lease = identityClock + CoalesceWait]
    OBVIOUS
  <2>2. row.status = inquiry[i].status /\ row.cancel = inquiry[i].cancel
        /\ row.valid = inquiry[i].valid
    BY <1>1, <2>1 DEF InquiryRows
  <2>3. inquiry' = [inquiry EXCEPT ![i] = row]
    BY <1>5, <2>1 DEF WaitForOlder, IdentityShape
  <2>4. inquiry'[i] = row /\ \A j \in Inquiries : j # i => inquiry'[j] = inquiry[j]
    BY <2>3 DEF IdentityShape
  <2>5. RowTaken(i)
    BY <2>2, <2>4 DEF RowTaken, SeekShape
  <2>6. QED
    BY <1>3, <1>5, <2>2, <2>4, <2>5 DEF WaitForOlder, NotesTaken
<1>6. CASE ReserveCall(w, i)
  <2>1. inquiry' = inquiry /\ Foremost(i) /\ dossier' = [dossier EXCEPT ![i] = Notes(i)]
    BY <1>6 DEF ReserveCall, Calls, Unsettled, MayGoOn, Searches
  <2>2. QED
    BY <1>3, <2>1 DEF RowTaken, SeekShape, NotesTaken
<1>7. ASSUME EndCancelled(i) \/ AskForInput(i) \/ UseKnownCompany(i) \/ Interrupted(i)
             \/ Conflicting(i) \/ Admit(i) \/ Exhausted(i) \/ SkipCandidate(i) \/ DeferCall(i)
      PROVE  \E status \in {"cancelled", "needs_input", "research_queued", "in_review",
                            "identity_queued"}, found \in BOOLEAN : \E notes :
                /\ NotesTaken(i, notes) /\ Save(i, notes, status, found)
                /\ status = "cancelled" => CancelAsked(i)
  <2>1. NotesTaken(i, OwnDossier(i)) /\ (Foremost(i) => NotesTaken(i, Notes(i)))
    BY DEF NotesTaken
  <2>2. CASE EndCancelled(i)
    BY <2>1, <2>2 DEF EndCancelled
  <2>3. CASE AskForInput(i)
    BY <2>1, <2>3 DEF AskForInput
  <2>4. CASE UseKnownCompany(i)
    BY <2>1, <2>4 DEF UseKnownCompany
  <2>5. CASE Interrupted(i)
    BY <2>1, <2>5 DEF Interrupted, Searches
  <2>6. CASE Conflicting(i)
    BY <2>1, <2>6 DEF Conflicting, MayGoOn, Searches
  <2>7. CASE Admit(i)
    BY <2>1, <2>7 DEF Admit, MayGoOn, Searches
  <2>8. CASE Exhausted(i)
    BY <2>1, <2>8 DEF Exhausted, Unsettled, MayGoOn, Searches
  <2>9. CASE SkipCandidate(i)
    <3>1. NotesTaken(i, [Notes(i) EXCEPT !.index = @ + 1])
      BY <2>9 DEF SkipCandidate, Unsettled, MayGoOn, Searches, NotesTaken
    <3>2. Save(i, [Notes(i) EXCEPT !.index = @ + 1], "identity_queued", FALSE)
      BY <2>9 DEF SkipCandidate
    <3>3. QED
      BY <3>1, <3>2
  <2>10. CASE DeferCall(i)
    BY <2>1, <2>10 DEF DeferCall, Calls, Unsettled, MayGoOn, Searches
  <2>11. QED
    BY <1>7, <2>2, <2>3, <2>4, <2>5, <2>6, <2>7, <2>8, <2>9, <2>10
<1>8. QED
  BY <1>4, <1>5, <1>6, <1>7 DEF TakeInquiry

LEMMA NotesTakenKeep ==
    ASSUME SeekShape, RowsApart, NEW i \in Inquiries, NEW notes, NotesTaken(i, notes)
    PROVE  /\ notes \in Notebooks /\ notes.row = OwnDossier(i).row /\ notes.row > 0
           /\ dossier[i].known => notes.known
           /\ notes.known /\ ~dossier[i].known => Foremost(i)
<1>1. /\ OwnDossier(i) \in Notebooks /\ OwnDossier(i).row > 0
      /\ OwnDossier(i).known = dossier[i].known
  BY OwnRow
<1>2. Notes(i) \in Notebooks /\ Notes(i).known /\ Notes(i).row = OwnDossier(i).row
  BY NotesRead
<1>3. CASE notes = OwnDossier(i)
  BY <1>1, <1>3
<1>4. CASE Foremost(i) /\ notes = Notes(i)
  BY <1>1, <1>2, <1>4
<1>5. CASE Foremost(i) /\ SkipsNext(Notes(i)) /\ notes = [Notes(i) EXCEPT !.index = @ + 1]
  <2>1. PICK n : n = Notes(i)
    OBVIOUS
  <2>2. n \in Notebook /\ n \in Notebooks /\ n.pages \in Seq({"match", "other"})
        /\ n.index \in Nat /\ n.searches \in Nat
    BY <1>2, <2>1 DEF Notebooks, Notebook
  <2>3. n.index < Len(n.pages)
    BY <1>5, <2>1, <2>2 DEF SkipsNext, WantsSearch
  <2>4. n.searches # 0
    BY <2>2, <2>3 DEF Notebooks, Searched
  <2>5. notes = [n EXCEPT !.index = n.index + 1] /\ n.index + 1 \in Nat
    BY <1>5, <2>1, <2>2
  <2>6. notes \in Notebook
    BY <2>2, <2>5 DEF Notebook
  <2>7. notes.row = n.row /\ notes.known = n.known /\ notes.searches = n.searches
        /\ notes.pages = n.pages
    BY <2>2, <2>5 DEF Notebook
  <2>8. notes \in Notebooks
    BY <2>2, <2>4, <2>6, <2>7 DEF Notebooks, Searched
  <2>9. QED
    BY <1>1, <1>2, <1>5, <2>1, <2>7, <2>8
<1>6. QED
  BY <1>3, <1>4, <1>5 DEF NotesTaken

(* Notes of a request that could not be copied cannot after a step of a worker  *)
(* at another one: an older equal request that waits is known already.       *)
LEMMA OwnStays ==
    ASSUME IdentityShape, SeekShape, NEW k \in Inquiries, inquiry[k].valid, StaysOwn(k),
           NEW i \in Inquiries, NEW notes \in Notebooks,
           dossier' = [dossier EXCEPT ![i] = notes], RowTaken(i),
           notes.row = OwnDossier(i).row, dossier[i].known => notes.known,
           notes.known /\ ~dossier[i].known => Foremost(i) /\ inquiry[i].status \in Waiting,
           inquiry'[i].status \in Waiting => inquiry[i].status \in Waiting \/ dossier[i].known,
           i = k => /\ notes = dossier[k]
                    /\ inquiry'[k].status \in Waiting => inquiry[k].status \in Waiting
    PROVE  StaysOwn(k)'
<1> SUFFICES ASSUME Fresh(dossier'[k]), inquiry'[k].status \in Waiting
             PROVE  /\ ~Copyable(k)'
                    /\ \A j \in Equal(k)' : j < k /\ inquiry'[j].status \in Waiting
                                              => dossier'[j].known
  BY DEF StaysOwn
<1>1. dossier'[i] = notes /\ \A j \in Inquiries : j # i => dossier'[j] = dossier[j]
  BY DEF SeekShape
<1>2. \A j \in Inquiries : dossier[j] \in Notebook /\ dossier[j].row \in Nat
          /\ (dossier[j].known => dossier[j].row > 0)
  BY DEF SeekShape, Notebooks, Notebook
<1>3. dossier'[k] = dossier[k] /\ inquiry[k].status \in Waiting /\ Fresh(dossier[k])
  BY <1>1 DEF RowTaken
<1>4. ~Copyable(k)
      /\ \A j \in Equal(k) : j < k /\ inquiry[j].status \in Waiting => dossier[j].known
  BY <1>3 DEF StaysOwn
<1>5. Equal(k)' = Equal(k) /\ Equal(k) \in SUBSET Inquiries
  BY DEF Equal, RowTaken
<1>6. i \in Equal(k) => notes.known = dossier[i].known
  <2>1. SUFFICES ASSUME i \in Equal(k), notes.known, ~dossier[i].known PROVE FALSE
    BY DEF Notebooks, Notebook, SeekShape
  <2>2. Foremost(i) /\ inquiry[i].status \in Waiting
    BY <2>1
  <2>3. k \in Equal(i) /\ i # k
    BY <2>1 DEF Equal
  <2>4. ~(k < i)
    BY <1>3, <2>2, <2>3 DEF Foremost, OlderWaiting
  <2>5. i < k
    BY <2>3, <2>4, IdentityAssumption DEF Inquiries
  <2>6. QED
    BY <1>4, <2>1, <2>2, <2>5
<1>7. ASSUME Copyable(k)' PROVE FALSE
  <2>1. PICK j \in Equal(k) : /\ dossier'[j].row > 0 /\ dossier'[j].known
                              /\ \A m \in Equal(k) : dossier'[m].row <= dossier'[j].row
    BY <1>5, <1>7 DEF Copyable, Newest
  <2>2. CASE i \in Equal(k) /\ dossier[i].row = 0
    <3>1. notes.row \in Nat /\ ~notes.known
      <4>1. notes.row \in Nat
        BY DEF Notebooks, Notebook
      <4>2. ~(dossier[i].row > 0)
        BY <2>2
      <4>3. ~dossier[i].known
        BY <1>2, <4>2
      <4>4. QED
        BY <1>6, <2>2, <4>1, <4>3
    <3>2. j # i /\ j \in Inquiries
      BY <1>1, <1>5, <2>1, <3>1
    <3>3. dossier[j].row < notes.row
      BY <2>2, <3>2, OwnRow
    <3>4. notes.row <= dossier[j].row
      BY <1>1, <2>1, <2>2, <3>2
    <3>5. QED
      BY <1>2, <3>1, <3>2, <3>3, <3>4
  <2>3. CASE ~(i \in Equal(k) /\ dossier[i].row = 0)
    <3>1. i \in Equal(k) => notes.row = dossier[i].row
      BY <1>2, <2>3, OwnRow
    <3>2. \A m \in Equal(k) : dossier'[m].row = dossier[m].row
                                 /\ dossier'[m].known = dossier[m].known
      BY <1>1, <1>5, <1>6, <3>1
    <3>3. QED
      BY <1>4, <2>1, <3>2 DEF Copyable, Newest
  <2>4. QED
    BY <2>2, <2>3
<1>8. ASSUME NEW j \in Equal(k), j < k, inquiry'[j].status \in Waiting PROVE dossier'[j].known
  <2>1. j \in Inquiries /\ (j # i => inquiry'[j] = inquiry[j])
    BY <1>5 DEF RowTaken
  <2>2. dossier[j].known
    BY <1>4, <1>8, <2>1
  <2>3. QED
    BY <1>1, <2>1, <2>2
<1>9. QED
  BY <1>5, <1>7, <1>8

(* What a request's next call is: a token of it, within the searches.        *)
LEMMA NextToken ==
    ASSUME NEW n \in Notebooks, WantsSearch(n) => CanSearch(n)
    PROVE  /\ NextCall(n).token \in Tokens /\ NextCall(n).calls \in Int
           /\ NextCall(n).token[1] # "search" => n.searches > 0
           /\ NextCall(n).token[1] = "search" => n.searches < SearchMax
<1>1. /\ n.searches \in Nat /\ n.index \in Nat /\ n.fetches \in Int
      /\ n.pages \in Seq({"match", "other"}) /\ Searched(n, n.searches)
  BY DEF Notebooks, Notebook
<1>2. SearchMax \in Nat /\ FetchMax \in Nat /\ FetchReserve \in Nat /\ MostPages \in Nat
  BY IdentityAssumption, AnswersBounded
<1>3. CASE WantsSearch(n)
  <2>1. n.searches \in 0 .. SearchMax - 1
    BY <1>1, <1>2, <1>3 DEF CanSearch
  <2>2. NextCall(n) = [token |-> <<"search", n.searches>>, calls |-> 1]
    BY <1>3 DEF NextCall
  <2>3. QED
    BY <1>1, <1>2, <2>1, <2>2 DEF Tokens
<1>4. CASE ~WantsSearch(n)
  <2>1. n.index < Len(n.pages)
    BY <1>1, <1>4 DEF WantsSearch
  <2>2. n.searches * MostPages <= SearchMax * MostPages /\ n.searches * MostPages \in Nat
        /\ SearchMax * MostPages \in Nat
    BY <1>1, <1>2, ProductMonotone DEF Searched
  <2>3. n.index \in 0 .. PageMax - 1
    <3>1. PageMax = SearchMax * MostPages
      BY DEF PageMax, MostPages
    <3>2. Len(n.pages) <= n.searches * MostPages /\ Len(n.pages) \in Nat
      BY <1>1 DEF Searched
    <3>3. QED
      BY <1>1, <2>1, <2>2, <3>1, <3>2
  <2>4. Min({FetchReserve, FetchMax - n.fetches}) \in Int
    <3>1. \E x \in {FetchReserve, FetchMax - n.fetches} :
              \A y \in {FetchReserve, FetchMax - n.fetches} : x <= y
      BY <1>1, <1>2
    <3>2. QED
      BY <1>1, <1>2, <3>1 DEF Min
  <2>5. NextCall(n) = [token |-> <<"fetch", n.index>>,
                       calls |-> Min({FetchReserve, FetchMax - n.fetches})]
    BY <1>4 DEF NextCall
  <2>6. n.searches > 0
    BY <1>1, <2>1 DEF Searched
  <2>7. QED
    BY <2>3, <2>4, <2>5, <2>6 DEF Tokens
<1>5. QED
  BY <1>3, <1>4

(* A call once reserved is never new again, one that has left stays gone.   *)
CallsMoveOn ==
    /\ callState' \in [Inquiries -> [Tokens -> CallStates]]
    /\ \A i \in Inquiries, t \in Tokens :
          /\ callState'[i][t] = "none" => callState[i][t] = "none"
          /\ callState'[i][t] = "reserved" => callState[i][t] \in {"none", "reserved"}

LEMMA OneCallMoves ==
    ASSUME SeekShape, NEW i \in Inquiries, NEW t \in Tokens,
           NEW state \in {"reserved", "in_flight", "settled"},
           state = "reserved" => callState[i][t] \in {"none", "reserved"},
           callState' = [callState EXCEPT ![i][t] = state]
    PROVE  CallsMoveOn /\ callState'[i][t] = state
<1>1. PICK calls : calls = [callState[i] EXCEPT ![t] = state]
  OBVIOUS
<1>2. callState[i] \in [Tokens -> CallStates] /\ state \in CallStates
  BY DEF SeekShape, CallStates
<1>3. /\ calls \in [Tokens -> CallStates] /\ calls[t] = state
      /\ \A u \in Tokens : u # t => calls[u] = callState[i][u]
  BY <1>1, <1>2
<1>4. callState' = [callState EXCEPT ![i] = calls]
  BY <1>1 DEF SeekShape
<1>5. callState'[i] = calls /\ \A j \in Inquiries : j # i => callState'[j] = callState[j]
  BY <1>4 DEF SeekShape
<1>6. callState' \in [Inquiries -> [Tokens -> CallStates]]
  BY <1>3, <1>4 DEF SeekShape
<1>7. QED
  BY <1>3, <1>5, <1>6 DEF CallsMoveOn

LEMMA RecoveredMoves ==
    ASSUME SeekShape, NEW i \in Inquiries, NEW cancelled \in BOOLEAN,
           callState' = [callState EXCEPT ![i] = Recovered(callState[i], cancelled)]
    PROVE  CallsMoveOn
<1>1. PICK calls : calls = Recovered(callState[i], cancelled)
  OBVIOUS
<1>2. ASSUME NEW t \in Tokens
      PROVE  /\ calls[t] \in CallStates
             /\ calls[t] = "none" => callState[i][t] = "none"
             /\ calls[t] = "reserved" => callState[i][t] = "reserved"
  <2>1. callState[i][t] \in CallStates
    BY DEF SeekShape
  <2>2. calls[t] = CASE callState[i][t] = "reserved" /\ cancelled -> "released"
                     [] callState[i][t] = "in_flight" -> "uncertain"
                     [] OTHER -> callState[i][t]
    BY <1>1 DEF Recovered
  <2>3. calls[t] \in {"released", "uncertain", callState[i][t]}
    BY <2>2
  <2>4. QED
    BY <2>1, <2>3 DEF CallStates
<1>3. callState' = [callState EXCEPT ![i] = calls]
  BY <1>1
<1>4. calls \in [Tokens -> CallStates]
  BY <1>1, <1>2 DEF Recovered
<1>5. callState'[i] = calls /\ \A j \in Inquiries : j # i => callState'[j] = callState[j]
  BY <1>3 DEF SeekShape
<1>6. callState' \in [Inquiries -> [Tokens -> CallStates]]
  BY <1>3, <1>4 DEF SeekShape
<1>7. QED
  BY <1>2, <1>5, <1>6 DEF CallsMoveOn

(* What a step at one request leaves the workers that take no part in it.    *)
LEMMA OthersStayFine ==
    ASSUME OneCallInv, NEW i \in Inquiries, NEW notes \in Notebooks,
           dossier' = [dossier EXCEPT ![i] = notes], RowTaken(i), CallsMoveOn,
           notes.row = OwnDossier(i).row, dossier[i].known => notes.known,
           notes.known /\ ~dossier[i].known => Foremost(i) /\ inquiry[i].status \in Waiting,
           inquiry'[i].status \in Waiting => inquiry[i].status \in Waiting \/ dossier[i].known,
           NEW v \in IdentityWorkers, seeker'[v] = seeker[v],
           seeker[v].at = i /\ Ready(v) /\ Ready(v)' =>
              /\ notes = dossier[i]
              /\ inquiry'[i].status \in Waiting => inquiry[i].status \in Waiting,
           seeker[v].at = i /\ seeker[v].doing = "calling" /\ ~inquiry[i].cancel =>
              notes.inFlight /\ notes.searches > 0
    PROVE  SeekerFine(v)'
<1> DEFINE k == seeker[v].at
<1>1. /\ IdentityShape /\ SeekShape /\ SeekerFine(v) /\ k \in Inquiries
      /\ seeker[v].token \in Tokens
  BY DEF OneCallInv, IdentityShape, SeekShape, Seekers
<1>2. dossier'[i] = notes /\ \A j \in Inquiries : j # i => dossier'[j] = dossier[j]
  BY <1>1 DEF SeekShape
<1>3. inquiry'[k].cancel = inquiry[k].cancel /\ inquiry'[k].valid = inquiry[k].valid
  BY <1>1 DEF RowTaken
<1>4. dossier[i].known => dossier[i].row > 0
  BY <1>1 DEF SeekShape, Notebooks
<1>5. ASSUME seeker[v].doing # "idle" PROVE SeekerNoted(v)'
  <2>1. SeekerNoted(v)
    BY <1>1, <1>5 DEF SeekerFine
  <2>2. dossier[i].known => notes.row = dossier[i].row
    BY <1>1, <1>4, OwnRow
  <2>3. dossier'[k].known /\ dossier'[k].row = dossier[k].row
    BY <1>1, <1>2, <2>1, <2>2 DEF SeekerNoted
  <2>4. callState'[k][seeker[v].token] # "none"
    BY <1>1, <2>1 DEF SeekerNoted, CallsMoveOn
  <2>5. QED
    BY <1>3, <2>1, <2>3, <2>4 DEF SeekerNoted
<1>6. ASSUME Ready(v)' PROVE ReadyToCall(v)'
  <2>1. SeekerNoted(v)
    BY <1>1, <1>6 DEF SeekerFine, Ready
  <2>2. Ready(v)
    BY <1>1, <1>3, <1>6, <2>1 DEF Ready, SeekerNoted, CallsMoveOn
  <2>3. ReadyToCall(v)
    BY <1>1, <2>2 DEF SeekerFine
  <2>4. dossier'[k] = dossier[k]
    BY <1>1, <1>2, <1>6, <2>2
  <2>5. i = k => /\ notes = dossier[k]
                 /\ inquiry'[k].status \in Waiting => inquiry[k].status \in Waiting
    BY <1>6, <2>2
  <2>6. StaysOwn(k)'
    BY <1>1, <2>1, <2>3, <2>5, OwnStays DEF ReadyToCall, SeekerNoted
  <2>7. QED
    BY <2>3, <2>4, <2>6 DEF ReadyToCall
<1>7. ASSUME seeker[v].doing = "calling" PROVE CallMarked(v)'
  <2>1. CallMarked(v)
    BY <1>1, <1>7 DEF SeekerFine
  <2>2. QED
    BY <1>1, <1>2, <1>3, <1>7, <2>1 DEF CallMarked
<1>8. QED
  BY <1>5, <1>6, <1>7 DEF SeekerFine

LEMMA RequestsStayKept ==
    ASSUME OneCallInv, NEW i \in Inquiries, NEW notes \in Notebooks,
           dossier' = [dossier EXCEPT ![i] = notes], RowTaken(i), desk' = desk,
           notes.row = OwnDossier(i).row, inquiry[i].status # "absent"
    PROVE  RowsApart' /\ RequestsKept' /\ dossier' \in [Inquiries -> Notebooks]
<1>1. SeekShape /\ RowsApart /\ RequestsKept
  BY DEF OneCallInv
<1>2. dossier'[i] = notes /\ \A j \in Inquiries : j # i => dossier'[j] = dossier[j]
  BY <1>1 DEF SeekShape
<1>3. \A j \in Inquiries : dossier[j].row \in Nat
  BY <1>1 DEF SeekShape, Notebooks, Notebook
<1>4. \/ dossier[i].row > 0 /\ notes.row = dossier[i].row
      \/ \A j \in Inquiries : dossier[j].row < notes.row
  BY <1>1, <1>3, OwnRow
<1>5. notes.row \in Nat
  BY DEF Notebooks, Notebook
<1>6. RowsApart'
  <2>1. SUFFICES ASSUME NEW j \in Inquiries, NEW m \in Inquiries \ {j}, dossier'[j].row > 0
                 PROVE  dossier'[j].row # dossier'[m].row
    BY DEF RowsApart
  <2>2. CASE dossier[i].row > 0 /\ notes.row = dossier[i].row
    <3>1. dossier'[j].row = dossier[j].row /\ dossier'[m].row = dossier[m].row
      BY <1>2, <2>2
    <3>2. QED
      BY <1>1, <2>1, <3>1 DEF RowsApart
  <2>3. CASE \A n \in Inquiries : dossier[n].row < notes.row
    <3>1. CASE j # i /\ m # i
      BY <1>1, <1>2, <2>1, <3>1 DEF RowsApart
    <3>2. CASE j = i
      BY <1>2, <1>3, <1>5, <2>3, <3>2
    <3>3. CASE m = i
      BY <1>2, <1>3, <1>5, <2>3, <3>3
    <3>4. QED
      BY <3>1, <3>2, <3>3
  <2>4. QED
    BY <1>4, <2>2, <2>3
<1>7. RequestsKept'
  BY <1>1, <1>2 DEF RequestsKept, RowTaken
<1>8. QED
  BY <1>1, <1>6, <1>7 DEF SeekShape

LEMMA TakeCallsMove ==
    ASSUME SeekShape, RowsApart, NEW w \in IdentityWorkers, NEW i \in Inquiries, TakeInquiry(w, i)
    PROVE  CallsMoveOn /\ (ReserveCall(w, i) \/ seeker' = seeker)
<1>1. CASE ReserveCall(w, i)
  <2>1. PICK n \in Notebooks : n = Notes(i)
    BY NotesRead
  <2>2. (WantsSearch(n) => CanSearch(n)) /\ NextCall(n).token \in Tokens
    BY <1>1, <2>1, NextToken DEF ReserveCall, Calls
  <2>3. PICK t \in Tokens : t = NextCall(Notes(i)).token
    BY <2>1, <2>2
  <2>4. callState' = [callState EXCEPT ![i][t] = "reserved"]
        /\ callState[i][t] \in {"none", "reserved"}
    BY <1>1, <2>3 DEF ReserveCall
  <2>5. QED
    BY <1>1, <2>4, OneCallMoves
<1>2. CASE EndCancelled(i) \/ Interrupted(i)
  <2>1. \E cancelled \in BOOLEAN :
            callState' = [callState EXCEPT ![i] = Recovered(callState[i], cancelled)]
    BY <1>2 DEF EndCancelled, Interrupted
  <2>2. CallsMoveOn
    BY <2>1, RecoveredMoves
  <2>3. QED
    BY <1>2, <2>2 DEF EndCancelled, Interrupted
<1>3. CASE callState' = callState /\ seeker' = seeker
  BY <1>3 DEF CallsMoveOn, SeekShape
<1>4. QED
  BY <1>1, <1>2, <1>3 DEF TakeInquiry, AskForInput, WaitForOlder, UseKnownCompany, Conflicting,
     Admit, Exhausted, SkipCandidate, DeferCall

(* A worker that takes a request reads what the others have read of it.     *)
LEMMA TakeReadsSame ==
    ASSUME OneCallInv, NEW i \in Inquiries, NEW notes, NotesTaken(i, notes),
           Foremost(i) => inquiry[i].status \in Waiting,
           NEW v \in IdentityWorkers, seeker[v].at = i,
           Ready(v) \/ (seeker[v].doing = "calling" /\ ~inquiry[i].cancel)
    PROVE  notes = dossier[i]
<1>1. SeekShape /\ RowsApart /\ SeekerFine(v)
  BY DEF OneCallInv
<1>2. SeekerNoted(v) /\ dossier[i].known /\ dossier[i] \in Notebooks
  BY <1>1 DEF SeekerFine, SeekerNoted, Ready, SeekShape
<1>3. OwnDossier(i) = dossier[i]
  BY <1>1, <1>2, OwnRow DEF Notebooks
<1>4. \/ Ready(v) /\ ReadyToCall(v)
      \/ dossier[i].inFlight /\ dossier[i].searches > 0
  BY <1>1 DEF SeekerFine, CallMarked
<1>5. CASE Foremost(i)
  <2>1. ~(Fresh(dossier[i]) /\ Copyable(i))
    <3>1. CASE Ready(v) /\ ReadyToCall(v)
      BY <1>5, <3>1 DEF ReadyToCall, StaysOwn
    <3>2. CASE dossier[i].searches > 0
      BY <1>2, <3>2 DEF Fresh, Notebooks, Notebook
    <3>3. QED
      BY <1>4, <3>1, <3>2
  <2>2. Notes(i) = dossier[i]
    BY <1>1, <1>2, <2>1, NotesRead
  <2>3. dossier[i].inFlight \/ ~SkipsNext(Notes(i))
    BY <1>4, <2>2 DEF ReadyToCall
  <2>4. QED
    BY <1>3, <2>2, <2>3 DEF NotesTaken
<1>6. CASE ~Foremost(i)
  BY <1>3, <1>6 DEF NotesTaken
<1>7. QED
  BY <1>5, <1>6

LEMMA TakeOneCall ==
    ASSUME OneCallInv, NEW w \in IdentityWorkers, NEW i \in Inquiries, TakeInquiry(w, i),
           IdentityShape'
    PROVE  OneCallInv'
<1>1. IdentityShape /\ SeekShape /\ RowsApart /\ RequestsKept /\ OneIdentityCall
  BY DEF OneCallInv
<1>2. PICK notes : NotesTaken(i, notes) /\ dossier' = [dossier EXCEPT ![i] = notes]
  BY <1>1, TakeWrites
<1>3. /\ RowTaken(i) /\ (inquiry'[i].status \in Waiting => inquiry[i].status \in Waiting)
      /\ Foremost(i) => inquiry[i].status \in Waiting
  BY <1>1, TakeWrites
<1>4. /\ notes \in Notebooks /\ notes.row = OwnDossier(i).row /\ (dossier[i].known => notes.known)
      /\ notes.known /\ ~dossier[i].known => Foremost(i)
  BY <1>1, <1>2, NotesTakenKeep
<1>5. CallsMoveOn /\ (ReserveCall(w, i) \/ seeker' = seeker)
  BY <1>1, TakeCallsMove
<1>6. seeker[w].doing = "idle" /\ inquiry[i].status # "absent" /\ desk' = desk
  BY DEF TakeInquiry, Selectable, Waiting
<1>7. RowsApart' /\ RequestsKept' /\ dossier' \in [Inquiries -> Notebooks]
  BY <1>2, <1>3, <1>4, <1>6, RequestsStayKept
<1>8. ASSUME NEW v \in IdentityWorkers, seeker'[v] = seeker[v]
      PROVE  SeekerFine(v)'
  <2>1. seeker[v].at = i /\ (Ready(v) \/ (seeker[v].doing = "calling" /\ ~inquiry[i].cancel))
          => notes = dossier[i]
    BY <1>2, <1>3, TakeReadsSame
  <2>2. seeker[v].at = i /\ seeker[v].doing = "calling" /\ ~inquiry[i].cancel
          => notes.inFlight /\ notes.searches > 0
    BY <2>1 DEF OneCallInv, SeekerFine, CallMarked
  <2>3. QED
    BY <1>2, <1>3, <1>4, <1>5, <1>8, <2>1, <2>2, OthersStayFine
<1>9. \A j \in Inquiries : inquiry'[j].status \in {"cancelled", "cancel_requested"}
                              => inquiry'[j].cancel
  BY <1>3 DEF RowTaken
<1>10. CASE seeker' = seeker
  <2>1. SeekShape' /\ OneIdentityCall'
    BY <1>1, <1>5, <1>7, <1>9, <1>10 DEF SeekShape, CallsMoveOn, OneIdentityCall
  <2>2. \A v \in IdentityWorkers : SeekerFine(v)'
    BY <1>8, <1>10
  <2>3. QED
    BY <1>7, <2>1, <2>2 DEF OneCallInv
<1>11. CASE ReserveCall(w, i)
  <2>1. PICK n \in Notebooks : n = Notes(i)
    BY <1>1, NotesRead
  <2>2. PICK next : next = NextCall(n)
    OBVIOUS
  <2>3. PICK s : s = [doing |-> "reserved", at |-> i, notes |-> n, token |-> next.token,
                      calls |-> next.calls, since |-> identityClock]
    OBVIOUS
  <2>4. /\ seeker' = [seeker EXCEPT ![w] = s] /\ inquiry' = inquiry
        /\ dossier' = [dossier EXCEPT ![i] = n]
        /\ Calls(i) /\ callState' = [callState EXCEPT ![i][next.token] = "reserved"]
        /\ callState[i][next.token] \in {"none", "reserved"}
    BY <1>11, <2>1, <2>2, <2>3 DEF ReserveCall
  <2>5. /\ Foremost(i) /\ inquiry[i].valid /\ ~n.inFlight /\ ~SkipsNext(n)
        /\ WantsSearch(n) => CanSearch(n)
    BY <2>1, <2>4 DEF Calls, Unsettled, MayGoOn, Searches, Foremost, Proceeds
  <2>6. /\ next.token \in Tokens /\ next.calls \in Int
        /\ next.token[1] # "search" => n.searches > 0
        /\ next.token[1] = "search" => n.searches < SearchMax
    BY <2>2, <2>5, NextToken
  <2>7. s \in Seekers
    BY <1>1, <2>1, <2>3, <2>6 DEF Seekers, IdentityShape
  <2>8. seeker'[w] = s /\ \A v \in IdentityWorkers : v # w => seeker'[v] = seeker[v]
    BY <1>1, <2>4 DEF SeekShape
  <2>9. seeker' \in [IdentityWorkers -> Seekers]
    BY <1>1, <2>4, <2>7 DEF SeekShape
  <2>10. dossier'[i] = n /\ \A j \in Inquiries : j # i => dossier'[j] = dossier[j]
    BY <1>1, <2>4 DEF SeekShape
  <2>11. callState'[i][next.token] = "reserved"
    BY <1>1, <2>4, <2>6, OneCallMoves
  <2>12. n.known /\ n.row = OwnDossier(i).row
         /\ (Fresh(n) => ~Copyable(i))
    <3>1. Fresh(n) => Fresh(dossier[i])
      <4>1. ~(Fresh(dossier[i]) /\ Copyable(i)) => n = [OwnDossier(i) EXCEPT !.known = TRUE]
        BY <1>1, <2>1, NotesRead
      <4>2. OwnDossier(i) \in Notebook /\ Fresh(OwnDossier(i)) = Fresh(dossier[i])
        BY <1>1, OwnRow DEF Notebooks, Fresh
      <4>3. [OwnDossier(i) EXCEPT !.known = TRUE].searches = OwnDossier(i).searches
            /\ [OwnDossier(i) EXCEPT !.known = TRUE].copied = OwnDossier(i).copied
        BY <4>2 DEF Notebook
      <4>4. QED
        BY <4>1, <4>2, <4>3 DEF Fresh
    <3>2. QED
      BY <1>1, <2>1, <3>1, NotesRead DEF Fresh
  <2>13. StaysOwn(i)'
    <3>1. SUFFICES ASSUME Fresh(n) PROVE StaysOwn(i)'
      BY <2>10 DEF StaysOwn
    <3>2. \A j \in Equal(i) : ~(j < i /\ inquiry[j].status \in Waiting)
      BY <2>5 DEF Foremost, OlderWaiting
    <3>3. ~Copyable(i)
      BY <2>12, <3>1
    <3>4. StaysOwn(i)
      BY <3>2, <3>3 DEF StaysOwn
    <3>5. Equal(i)' = Equal(i) /\ Equal(i) \in SUBSET (Inquiries \ {i})
      BY <2>4 DEF Equal
    <3>6. \A j \in Equal(i) : dossier'[j] = dossier[j]
      BY <2>10, <3>5
    <3>7. ~Copyable(i)'
      BY <3>3, <3>5, <3>6 DEF Copyable, Newest
    <3>8. QED
      BY <2>4, <3>2, <3>5, <3>7 DEF StaysOwn
  <2>14. SeekerFine(w)'
    <3>1. /\ s.doing = "reserved" /\ s.at = i /\ s.notes = n /\ s.token = next.token
      BY <2>3
    <3>2. SeekerNoted(w)'
      BY <2>4, <2>5, <2>8, <2>10, <2>11, <2>12, <3>1 DEF SeekerNoted
    <3>3. ReadyToCall(w)'
      BY <2>2, <2>5, <2>6, <2>8, <2>10, <2>13, <3>1 DEF ReadyToCall
    <3>4. QED
      BY <2>8, <3>1, <3>2, <3>3 DEF SeekerFine
  <2>15. \A v \in IdentityWorkers : SeekerFine(v)'
    BY <1>8, <2>8, <2>14
  <2>16. OneIdentityCall'
    <3>1. seeker'[w].doing = "reserved"
      BY <2>3, <2>8
    <3>2. QED
      BY <1>1, <2>8, <3>1 DEF OneIdentityCall
  <2>17. SeekShape'
    BY <1>5, <1>7, <1>9, <2>9 DEF SeekShape, CallsMoveOn
  <2>18. QED
    BY <1>7, <2>15, <2>16, <2>17 DEF OneCallInv
<1>12. QED
  BY <1>5, <1>10, <1>11

LEMMA RestingSeeker ==
    NoDossier \in Notebooks /\ AtRest \in Seekers
<1>1. SearchMax \in Nat /\ SearchMax >= 1 /\ InquiryCount \in Nat /\ InquiryCount >= 1
      /\ MostPages \in Nat
  BY IdentityAssumption, AnswersBounded
<1>2. <<>> \in Seq({"match", "other"}) /\ Len(<<>>) = 0
  OBVIOUS
<1>3. NoDossier \in Notebook
  BY <1>2 DEF NoDossier, Notebook
<1>4. Searched(NoDossier, NoDossier.searches) /\ ~NoDossier.known
  BY <1>1, <1>2 DEF NoDossier, Searched
<1>5. NoDossier \in Notebooks
  BY <1>3, <1>4 DEF Notebooks
<1>6. <<"search", 0>> \in Tokens /\ 1 \in Inquiries
  BY <1>1 DEF Tokens, Inquiries
<1>7. QED
  BY <1>5, <1>6 DEF AtRest, Seekers

(* A worker's last step at a request: nobody else was about to call for it, or  *)
(* the request is cancelled.                                                *)
LEMMA WorkEnds ==
    ASSUME OneCallInv, NEW w \in IdentityWorkers, IdentityShape', seeker[w].doing # "idle",
           NEW notes \in Notebooks, notes.known, notes.row = seeker[w].notes.row,
           NEW status \in {"cancelled", "identity_queued"},
           Save(seeker[w].at, notes, status, FALSE),
           status = "cancelled" => CancelAsked(seeker[w].at),
           inquiry[seeker[w].at].cancel \/ seeker[w].doing = "calling",
           seeker' = [seeker EXCEPT ![w] = AtRest], CallsMoveOn, desk' = desk
    PROVE  OneCallInv'
<1> DEFINE i == seeker[w].at
<1>1. IdentityShape /\ SeekShape /\ RowsApart /\ RequestsKept /\ OneIdentityCall /\ SeekerFine(w)
  BY DEF OneCallInv
<1>2. i \in Inquiries /\ SeekerNoted(w)
  BY <1>1 DEF IdentityShape, SeekerFine
<1>3. dossier[i] \in Notebooks /\ dossier[i].known /\ dossier[i].row > 0
      /\ notes.row = dossier[i].row
  BY <1>1, <1>2 DEF SeekerNoted, SeekShape, Notebooks
<1>4. notes.row = OwnDossier(i).row
  BY <1>1, <1>2, <1>3, OwnRow
<1>5. inquiry[i].status # "absent"
  BY <1>1, <1>2, <1>3 DEF RequestsKept
<1>6. RowTaken(i)
  BY <1>1, <1>2, SaveTakesRow
<1>7. dossier' = [dossier EXCEPT ![i] = notes]
  BY DEF Save
<1>8. RowsApart' /\ RequestsKept' /\ dossier' \in [Inquiries -> Notebooks]
  BY <1>2, <1>4, <1>5, <1>6, <1>7, RequestsStayKept
<1>9. seeker'[w] = AtRest /\ \A v \in IdentityWorkers : v # w => seeker'[v] = seeker[v]
  BY <1>1 DEF SeekShape
<1>10. AtRest.doing = "idle"
  BY DEF AtRest
<1>11. ASSUME NEW v \in IdentityWorkers PROVE SeekerFine(v)'
  <2>1. CASE v = w
    BY <1>9, <1>10, <2>1 DEF SeekerFine, Ready
  <2>2. CASE v # w
    <3>1. SeekerFine(v)
      BY DEF OneCallInv
    <3>2. ~inquiry[i].cancel => seeker[w].doing = "calling" /\ dossier[i].inFlight
      BY <1>1 DEF SeekerFine, CallMarked
    <3>3. seeker[v].at = i => ~Ready(v)
      BY <3>1, <3>2 DEF SeekerFine, Ready, ReadyToCall
    <3>4. ~(seeker[v].at = i /\ seeker[v].doing = "calling" /\ ~inquiry[i].cancel)
      BY <1>1, <2>2, <3>2 DEF OneIdentityCall
    <3>5. seeker'[v] = seeker[v]
      BY <1>9, <2>2
    <3>6. QED
      BY <1>2, <1>3, <1>4, <1>6, <1>7, <3>3, <3>4, <3>5, OthersStayFine
  <2>3. QED
    BY <2>1, <2>2
<1>12. OneIdentityCall'
  BY <1>1, <1>9, <1>10 DEF OneIdentityCall
<1>13. SeekShape'
  BY <1>1, <1>6, <1>8, RestingSeeker DEF SeekShape, CallsMoveOn, RowTaken
<1>14. QED
  BY <1>8, <1>11, <1>12, <1>13 DEF OneCallInv

LEMMA CancelledOneCall ==
    ASSUME OneCallInv, NEW w \in IdentityWorkers, CancelledBeforeCall(w), IdentityShape'
    PROVE  OneCallInv'
<1> DEFINE i == seeker[w].at
<1>1. SeekShape /\ SeekerFine(w) /\ i \in Inquiries /\ seeker[w].notes \in Notebooks
  BY DEF OneCallInv, IdentityShape, SeekShape, Seekers
<1>2. seeker[w].doing # "idle" /\ SeekerNoted(w)
  BY <1>1 DEF SeekerFine, CancelledBeforeCall
<1>3. CancelAsked(i) /\ inquiry[i].cancel
  BY <1>1 DEF CancelledBeforeCall, CancelAsked, SeekShape
<1>4. CallsMoveOn
  BY <1>1, RecoveredMoves DEF CancelledBeforeCall
<1>5. QED
  BY <1>1, <1>2, <1>3, <1>4, WorkEnds DEF CancelledBeforeCall, SeekerNoted

LEMMA AnswerOneCall ==
    ASSUME OneCallInv, NEW w \in IdentityWorkers, AnswerCall(w), IdentityShape'
    PROVE  OneCallInv'
<1>1. PICK s : s = seeker[w]
  OBVIOUS
<1>2. SeekShape /\ SeekerFine(w) /\ s \in Seekers /\ s.doing = "calling"
  BY <1>1 DEF OneCallInv, SeekShape, AnswerCall
<1>3. /\ s.at \in Inquiries /\ s.notes \in Notebooks /\ s.notes \in Notebook /\ s.token \in Tokens
      /\ s.calls \in Int /\ s.notes.known
      /\ s.notes.searches \in Nat /\ s.notes.searches > 0
      /\ s.token[1] = "search" => Searched(s.notes, s.notes.searches - 1)
  BY <1>1, <1>2 DEF Seekers, Notebooks, Notebook, SeekerFine, SeekerNoted, CallMarked
<1>4. callState' = [callState EXCEPT ![s.at][s.token] = "settled"]
      /\ seeker' = [seeker EXCEPT ![w] = AtRest] /\ desk' = desk
  BY <1>1 DEF AnswerCall
<1>5. CallsMoveOn
  BY <1>2, <1>3, <1>4, OneCallMoves
<1>6. PICK pages \in IF s.token[1] = "search" THEN SearchAnswers ELSE {<<>>},
           finding \in IF s.token[1] = "search" THEN {s.notes.finding}
                       ELSE {"none", "corroborated", "conflict"},
           spare \in IF s.token[1] = "search" THEN {0} ELSE 0 .. s.calls :
         Save(s.at, [s.notes EXCEPT !.inFlight = FALSE, !.pages = @ \o pages,
                         !.finding = finding, !.fetches = @ - spare], "identity_queued", FALSE)
  BY <1>1 DEF AnswerCall
<1>7. PICK read : read = s.notes.pages \o pages
  OBVIOUS
<1>8. PICK notes : notes = [s.notes EXCEPT !.inFlight = FALSE, !.pages = read,
                                !.finding = finding, !.fetches = s.notes.fetches - spare]
  OBVIOUS
<1>9. Save(s.at, notes, "identity_queued", FALSE)
  BY <1>3, <1>6, <1>7, <1>8 DEF Notebook
<1>10. /\ pages \in Seq({"match", "other"}) /\ spare \in Int /\ s.notes.pages \in Seq({"match", "other"})
       /\ finding \in {"none", "corroborated", "conflict"} /\ s.notes.fetches \in Int
  <2>1. /\ s.notes.pages \in Seq({"match", "other"}) /\ s.notes.fetches \in Int
        /\ s.notes.finding \in {"none", "corroborated", "conflict"}
    BY <1>3 DEF Notebook
  <2>2. pages \in Seq({"match", "other"})
    <3>1. \A answer \in SearchAnswers : answer \in Seq({"match", "other"})
      BY IdentityAssumption
    <3>2. <<>> \in Seq({"match", "other"})
      OBVIOUS
    <3>3. QED
      BY <1>6, <3>1, <3>2
  <2>3. spare \in Int
    BY <1>3, <1>6
  <2>4. finding \in {"none", "corroborated", "conflict"}
    BY <1>6, <2>1
  <2>5. QED
    BY <2>1, <2>2, <2>3, <2>4
<1>11. read \in Seq({"match", "other"}) /\ Len(read) = Len(s.notes.pages) + Len(pages)
  BY <1>7, <1>10
<1>12. notes \in Notebook
  <2>1. s.notes.fetches - spare \in Int
    BY <1>10
  <2>2. QED
    BY <1>3, <1>8, <1>10, <1>11, <2>1 DEF Notebook
<1>13. /\ notes.row = s.notes.row /\ notes.known = s.notes.known
       /\ notes.searches = s.notes.searches /\ notes.pages = read
  BY <1>3, <1>8 DEF Notebook
<1>14. notes \in Notebooks
  <2>1. s.notes.searches <= SearchMax /\ (s.notes.known => s.notes.row > 0)
        /\ Len(s.notes.pages) <= s.notes.searches * MostPages
    BY <1>3 DEF Notebooks, Searched
  <2>2. Len(read) <= s.notes.searches * MostPages
    <3>1. MostPages \in Nat /\ \A answer \in SearchAnswers : Len(answer) \in 0 .. MostPages
      BY AnswersBounded
    <3>2. CASE s.token[1] = "search"
      <4>1. Len(s.notes.pages) <= (s.notes.searches - 1) * MostPages
        BY <1>3, <3>2 DEF Searched
      <4>2. Len(pages) <= MostPages /\ Len(pages) \in Nat /\ Len(s.notes.pages) \in Nat
        BY <1>6, <1>10, <3>1, <3>2
      <4>3. s.notes.searches - 1 \in Nat
        BY <1>3
      <4>4. (s.notes.searches - 1) * MostPages + MostPages = s.notes.searches * MostPages
            /\ (s.notes.searches - 1) * MostPages \in Nat
        BY <1>3, <3>1, <4>3
      <4>5. QED
        BY <1>11, <3>1, <4>1, <4>2, <4>4
    <3>3. CASE s.token[1] # "search"
      <4>1. Len(pages) = 0 /\ Len(s.notes.pages) \in Nat
        BY <1>6, <1>10, <3>3
      <4>2. QED
        BY <1>11, <2>1, <4>1
    <3>4. QED
      BY <3>2, <3>3
  <2>3. QED
    BY <1>3, <1>12, <1>13, <2>1, <2>2 DEF Notebooks, Searched
<1>15. QED
  BY <1>1, <1>2, <1>3, <1>4, <1>5, <1>9, <1>13, <1>14, WorkEnds

(* The notes of a call, marked: one search more, or one page further.        *)
LEMMA CallIsMarked ==
    ASSUME NEW s \in Seekers, s.token[1] # "search" => s.notes.searches > 0,
           s.token[1] = "search" => s.notes.searches < SearchMax
    PROVE  /\ Marked(s) \in Notebooks /\ Marked(s).inFlight /\ Marked(s).searches > 0
           /\ Marked(s).row = s.notes.row /\ Marked(s).known = s.notes.known
           /\ s.token[1] = "search" => Searched(Marked(s), Marked(s).searches - 1)
<1>1. PICK n : n = s.notes
  OBVIOUS
<1>2. /\ n \in Notebooks /\ n \in Notebook /\ s.calls \in Int /\ n.searches \in Nat
      /\ n.pages \in Seq({"match", "other"}) /\ n.index \in Nat /\ n.fetches \in Int
      /\ n.row \in Nat
  BY <1>1 DEF Seekers, Notebooks, Notebook
<1>3. MostPages \in Nat /\ SearchMax \in Nat
  BY AnswersBounded, IdentityAssumption
<1>4. /\ n.known => n.row > 0
      /\ n.searches <= SearchMax
      /\ Len(n.pages) <= n.searches * MostPages /\ Len(n.pages) \in Nat
  BY <1>2 DEF Notebooks, Searched
<1>5. CASE s.token[1] = "search"
  <2>1. PICK m : m = [n EXCEPT !.inFlight = TRUE, !.searches = n.searches + 1,
                               !.lastSearch = n.index]
    OBVIOUS
  <2>2. Marked(s) = m
    BY <1>1, <1>2, <1>5, <2>1 DEF Marked
  <2>3. m \in Notebook
    <3>1. n.searches + 1 \in Nat
      BY <1>2
    <3>2. QED
      BY <1>2, <2>1, <3>1 DEF Notebook
  <2>4. /\ m.row = n.row /\ m.known = n.known /\ m.inFlight = TRUE
        /\ m.searches = n.searches + 1 /\ m.pages = n.pages
    BY <1>2, <2>1 DEF Notebook
  <2>5. n.searches * MostPages <= (n.searches + 1) * MostPages /\ n.searches * MostPages \in Nat
        /\ (n.searches + 1) * MostPages \in Nat /\ m.searches - 1 = n.searches
    <3>1. n.searches + 1 \in Nat /\ n.searches <= n.searches + 1
      BY <1>2
    <3>2. QED
      BY <1>2, <1>3, <2>4, <3>1, ProductMonotone
  <2>6. m.searches <= SearchMax /\ m.searches > 0
    BY <1>1, <1>2, <1>3, <1>5, <2>4
  <2>7. Searched(m, m.searches) /\ Searched(m, m.searches - 1)
    BY <1>2, <1>4, <2>4, <2>5, <2>6 DEF Searched
  <2>8. QED
    BY <1>1, <1>4, <2>2, <2>3, <2>4, <2>6, <2>7 DEF Notebooks
<1>6. CASE s.token[1] # "search"
  <2>1. PICK m : m = [n EXCEPT !.inFlight = TRUE, !.index = n.index + 1,
                               !.fetches = n.fetches + s.calls]
    OBVIOUS
  <2>2. Marked(s) = m
    BY <1>1, <1>2, <1>6, <2>1 DEF Marked
  <2>3. m \in Notebook
    <3>1. n.index + 1 \in Nat /\ n.fetches + s.calls \in Int
      BY <1>2
    <3>2. QED
      BY <1>2, <2>1, <3>1 DEF Notebook
  <2>4. /\ m.row = n.row /\ m.known = n.known /\ m.inFlight = TRUE
        /\ m.searches = n.searches /\ m.pages = n.pages
    BY <1>2, <2>1 DEF Notebook
  <2>5. m.searches > 0
    BY <1>1, <1>6, <2>4
  <2>6. Searched(m, m.searches)
    BY <1>4, <2>4, <2>5 DEF Searched
  <2>7. QED
    BY <1>1, <1>4, <1>6, <2>2, <2>3, <2>4, <2>5, <2>6 DEF Notebooks
<1>7. QED
  BY <1>5, <1>6

LEMMA DispatchOneCall ==
    ASSUME OneCallInv, NEW w \in IdentityWorkers, DispatchCall(w), IdentityShape'
    PROVE  OneCallInv'
<1>1. PICK s : s = seeker[w]
  OBVIOUS
<1>2. PICK i : i = s.at
  OBVIOUS
<1>3. IdentityShape /\ SeekShape /\ RowsApart /\ RequestsKept /\ OneIdentityCall /\ SeekerFine(w)
  BY DEF OneCallInv
<1>4. /\ s.doing = "reserved" /\ ~CancelAsked(i) /\ callState[i][s.token] = "reserved"
      /\ callState' = [callState EXCEPT ![i][s.token] = "in_flight"]
      /\ dossier' = [dossier EXCEPT ![i] = Marked(s)]
      /\ inquiry' = [inquiry EXCEPT ![i].status = "identity_checking",
                                    ![i].lease = s.since + IdentityLease]
      /\ seeker' = [seeker EXCEPT ![w].doing = "calling", ![w].notes = Marked(s), ![w].since = 0]
      /\ desk' = desk
  BY <1>1, <1>2 DEF DispatchCall
<1>5. /\ i \in Inquiries /\ s \in Seekers /\ s.token \in Tokens /\ inquiry[i] \in InquiryRows
      /\ s.notes \in Notebooks /\ s.since \in Nat
  BY <1>1, <1>2, <1>3 DEF SeekShape, Seekers, IdentityShape
<1>6. ~inquiry[i].cancel /\ Ready(w)
  BY <1>1, <1>2, <1>4 DEF CancelAsked, Ready
<1>7. /\ s.notes = dossier[i] /\ ~dossier[i].inFlight /\ s.token = NextCall(dossier[i]).token
      /\ s.token[1] # "search" => s.notes.searches > 0
      /\ s.token[1] = "search" => s.notes.searches < SearchMax
  BY <1>1, <1>2, <1>3, <1>6 DEF SeekerFine, ReadyToCall
<1>8. /\ dossier[i].known /\ dossier[i].row > 0 /\ s.notes.known /\ inquiry[i].valid
      /\ inquiry[i].status # "absent" /\ OwnDossier(i) = dossier[i]
  <2>1. SeekerNoted(w)
    BY <1>1, <1>3, <1>4 DEF SeekerFine
  <2>2. dossier[i].known /\ s.notes.known /\ inquiry[i].valid /\ dossier[i].row > 0
    BY <1>1, <1>2, <1>3, <1>5, <2>1 DEF SeekerNoted, SeekShape, Notebooks
  <2>3. QED
    BY <1>3, <1>5, <2>2, OwnRow DEF RequestsKept
<1>9. PICK m : m = Marked(s)
  OBVIOUS
<1>10. /\ m \in Notebooks /\ m.inFlight /\ m.searches > 0
       /\ m.row = dossier[i].row /\ m.known = dossier[i].known
       /\ s.token[1] = "search" => Searched(m, m.searches - 1)
  BY <1>5, <1>7, <1>9, CallIsMarked
<1>11. inquiry'[i].status = "identity_checking" /\ inquiry'[i].cancel = inquiry[i].cancel
       /\ inquiry'[i].valid = inquiry[i].valid
       /\ \A j \in Inquiries : j # i => inquiry'[j] = inquiry[j]
  <2>1. PICK lease : lease = s.since + IdentityLease
    OBVIOUS
  <2>2. PICK row : row = [inquiry[i] EXCEPT !.status = "identity_checking", !.lease = lease]
    OBVIOUS
  <2>3. inquiry' = [inquiry EXCEPT ![i] = row]
    BY <1>3, <1>4, <1>5, <2>1, <2>2 DEF IdentityShape
  <2>4. row.status = "identity_checking" /\ row.cancel = inquiry[i].cancel
        /\ row.valid = inquiry[i].valid
    BY <1>5, <2>2 DEF InquiryRows
  <2>5. QED
    BY <1>3, <1>5, <2>3, <2>4 DEF IdentityShape
<1>12. RowTaken(i)
  BY <1>3, <1>11 DEF RowTaken, SeekShape
<1>13. CallsMoveOn /\ callState'[i][s.token] = "in_flight"
  BY <1>3, <1>4, <1>5, OneCallMoves
<1>14. dossier' = [dossier EXCEPT ![i] = m] /\ dossier'[i] = m
  BY <1>3, <1>4, <1>5, <1>9 DEF SeekShape
<1>15. RowsApart' /\ RequestsKept' /\ dossier' \in [Inquiries -> Notebooks]
  BY <1>4, <1>5, <1>8, <1>10, <1>12, <1>14, RequestsStayKept
<1>16. PICK t : t = [s EXCEPT !.doing = "calling", !.notes = m, !.since = 0]
  OBVIOUS
<1>17. /\ t \in Seekers /\ t.doing = "calling" /\ t.notes = m /\ t.at = i /\ t.token = s.token
  BY <1>2, <1>5, <1>10, <1>16 DEF Seekers
<1>18. seeker' = [seeker EXCEPT ![w] = t]
  BY <1>1, <1>3, <1>4, <1>9, <1>16 DEF SeekShape
<1>19. seeker'[w] = t /\ \A v \in IdentityWorkers : v # w => seeker'[v] = seeker[v]
  BY <1>3, <1>18 DEF SeekShape
<1>20. SeekShape'
  BY <1>3, <1>12, <1>13, <1>15, <1>17, <1>18 DEF SeekShape, CallsMoveOn, RowTaken
<1>21. \A v \in IdentityWorkers \ {w} : ~(seeker[v].doing = "calling" /\ seeker[v].at = i)
  BY <1>6, <1>7 DEF OneCallInv, SeekerFine, CallMarked
<1>22. ASSUME NEW v \in IdentityWorkers PROVE SeekerFine(v)'
  <2>1. CASE v = w
    <3>1. SeekerNoted(w)'
      BY <1>8, <1>10, <1>11, <1>13, <1>14, <1>17, <1>19 DEF SeekerNoted
    <3>2. CallMarked(w)'
      BY <1>10, <1>14, <1>17, <1>19 DEF CallMarked
    <3>3. QED
      BY <1>17, <1>19, <2>1, <3>1, <3>2 DEF SeekerFine, Ready
  <2>2. CASE v # w
    <3>1. seeker'[v] = seeker[v] /\ SeekerFine(v)
      BY <1>19, <2>2 DEF OneCallInv
    <3>2. seeker[v].at = i => ~(Ready(v) /\ Ready(v)')
      <4>1. SUFFICES ASSUME seeker[v].at = i, Ready(v), Ready(v)' PROVE FALSE
        OBVIOUS
      <4>2. seeker[v].token = s.token
        BY <1>7, <3>1, <4>1 DEF SeekerFine, ReadyToCall
      <4>3. QED
        BY <1>13, <3>1, <4>1, <4>2 DEF Ready
    <3>3. ~(seeker[v].at = i /\ seeker[v].doing = "calling")
      BY <1>21, <2>2
    <3>4. QED
      BY <1>5, <1>8, <1>10, <1>12, <1>13, <1>14, <3>1, <3>2, <3>3, OthersStayFine
  <2>3. QED
    BY <2>1, <2>2
<1>23. OneIdentityCall'
  BY <1>3, <1>17, <1>19, <1>21 DEF OneIdentityCall
<1>24. QED
  BY <1>15, <1>20, <1>22, <1>23 DEF OneCallInv

(* Steps that touch neither notes nor calls: at most a request stops waiting   *)
(* and a worker rests.                                                      *)
LEMMA QuietOneCall ==
    ASSUME OneCallInv, IdentityShape', dossier' = dossier, callState' = callState,
           \A j \in Inquiries :
              /\ inquiry[j].cancel => inquiry'[j].cancel
              /\ inquiry'[j].valid = inquiry[j].valid
              /\ inquiry'[j].status = "absent" <=> inquiry[j].status = "absent"
              /\ inquiry'[j].status \in Waiting => inquiry[j].status \in Waiting
              /\ inquiry'[j].status \in {"cancelled", "cancel_requested"} => inquiry'[j].cancel,
           \A v \in IdentityWorkers : seeker'[v] \in {seeker[v], AtRest},
           \A d \in Desks : \A j \in Inquiries \cap desk'[d].on :
              inquiry[j].status # "absent"
    PROVE  OneCallInv'
<1>1. SeekShape /\ RowsApart /\ RequestsKept /\ OneIdentityCall
  BY DEF OneCallInv
<1>2. RowsApart' /\ RequestsKept'
  BY <1>1 DEF RowsApart, RequestsKept
<1>3. SeekShape'
  BY <1>1, RestingSeeker DEF SeekShape, IdentityShape
<1>4. AtRest.doing = "idle"
  BY DEF AtRest
<1>5. ASSUME NEW v \in IdentityWorkers PROVE SeekerFine(v)'
  <2>1. CASE seeker'[v] = AtRest
    BY <1>4, <2>1 DEF SeekerFine, Ready
  <2>2. CASE seeker'[v] = seeker[v]
    <3>1. SeekerFine(v) /\ seeker[v].at \in Inquiries
      BY <1>1 DEF OneCallInv, SeekShape, Seekers
    <3>2. ASSUME StaysOwn(seeker[v].at) PROVE StaysOwn(seeker[v].at)'
      <4>1. Equal(seeker[v].at)' = Equal(seeker[v].at)
            /\ Equal(seeker[v].at) \in SUBSET Inquiries
        BY <2>2 DEF Equal
      <4>2. Copyable(seeker[v].at)' = Copyable(seeker[v].at)
        BY <2>2, <4>1 DEF Copyable, Newest
      <4>3. QED
        BY <2>2, <3>1, <3>2, <4>1, <4>2 DEF StaysOwn
    <3>3. SeekerNoted(v) => SeekerNoted(v)'
      BY <2>2, <3>1 DEF SeekerNoted
    <3>4. Ready(v)' => Ready(v)
      BY <2>2, <3>1 DEF Ready
    <3>5. ReadyToCall(v) => ReadyToCall(v)'
      BY <2>2, <3>1, <3>2 DEF ReadyToCall
    <3>6. CallMarked(v) => CallMarked(v)'
      BY <2>2, <3>1 DEF CallMarked
    <3>7. QED
      BY <2>2, <3>1, <3>3, <3>4, <3>5, <3>6 DEF SeekerFine
  <2>3. QED
    BY <2>1, <2>2
<1>6. OneIdentityCall'
  BY <1>1, <1>4 DEF OneIdentityCall
<1>7. QED
  BY <1>2, <1>3, <1>5, <1>6 DEF OneCallInv

(* A request that comes is equal only to older ones, and has no dossier yet.  *)
LEMMA InquireOneCall ==
    ASSUME OneCallInv, NEW i \in Inquiries, NEW valid \in BOOLEAN, Inquire(i, valid), IdentityShape'
    PROVE  OneCallInv'
<1>1. IdentityShape /\ SeekShape /\ RowsApart /\ RequestsKept /\ OneIdentityCall
  BY DEF OneCallInv
<1>2. /\ inquiry[i].status = "absent" /\ inquiry[i] \in InquiryRows
      /\ \A j \in Inquiries : j < i => inquiry[j].status # "absent"
      /\ dossier' = dossier /\ callState' = callState /\ seeker' = seeker /\ desk' = desk
  BY <1>1 DEF Inquire, IdentityShape
<1>3. PICK row : row = [inquiry[i] EXCEPT !.status = "pending", !.valid = valid]
  OBVIOUS
<1>4. inquiry' = [inquiry EXCEPT ![i] = row]
  BY <1>1, <1>3 DEF Inquire, IdentityShape
<1>5. row.status = "pending" /\ row.cancel = inquiry[i].cancel
  BY <1>2, <1>3 DEF InquiryRows
<1>6. inquiry'[i] = row /\ \A j \in Inquiries : j # i => inquiry'[j] = inquiry[j]
  BY <1>1, <1>4 DEF IdentityShape
<1>7. dossier[i].row = 0 /\ \A j \in Inquiries : i < j => inquiry[j].status = "absent"
  BY <1>1, <1>2 DEF RequestsKept
<1>8. RequestsKept'
  <2>1. ASSUME NEW j \in Inquiries, inquiry'[j].status = "absent"
        PROVE  dossier[j].row = 0 /\ \A m \in Inquiries : j < m => inquiry'[m].status = "absent"
    <3>1. j # i /\ inquiry[j].status = "absent"
      BY <1>5, <1>6, <2>1
    <3>2. dossier[j].row = 0 /\ \A m \in Inquiries : j < m => inquiry[m].status = "absent"
      BY <1>1, <3>1 DEF RequestsKept
    <3>3. ~(j < i)
      BY <1>2, <3>1
    <3>4. QED
      BY <1>6, <3>2, <3>3
  <2>2. \A d \in Desks : \A j \in Inquiries \cap desk[d].on : inquiry'[j].status # "absent"
    BY <1>1, <1>5, <1>6 DEF RequestsKept
  <2>3. QED
    BY <1>2, <2>1, <2>2 DEF RequestsKept
<1>9. SeekShape' /\ RowsApart' /\ OneIdentityCall'
  <2>1. \A j \in Inquiries : inquiry'[j].status \in {"cancelled", "cancel_requested"}
                                => inquiry'[j].cancel
    BY <1>1, <1>5, <1>6 DEF SeekShape
  <2>2. QED
    BY <1>1, <1>2, <2>1 DEF SeekShape, RowsApart, OneIdentityCall
<1>10. ASSUME NEW v \in IdentityWorkers PROVE SeekerFine(v)'
  <2>1. PICK k \in Inquiries : k = seeker[v].at
    BY <1>1 DEF IdentityShape
  <2>2. SeekerFine(v)
    BY DEF OneCallInv
  <2>3. CASE seeker[v].doing = "idle"
    BY <1>2, <2>3 DEF SeekerFine, Ready
  <2>4. CASE seeker[v].doing # "idle"
    <3>1. SeekerNoted(v) /\ dossier[k].row > 0 /\ k # i /\ inquiry[k].status # "absent"
      <4>1. SeekerNoted(v) /\ dossier[k].row > 0
        BY <1>1, <2>1, <2>2, <2>4 DEF SeekerFine, SeekerNoted, SeekShape, Notebooks
      <4>2. k # i /\ inquiry[k].status # "absent"
        BY <1>1, <1>7, <4>1 DEF RequestsKept
      <4>3. QED
        BY <4>1, <4>2
    <3>2. inquiry'[k] = inquiry[k] /\ k < i
      <4>1. ~(i < k)
        BY <1>7, <3>1
      <4>2. k \in Nat /\ i \in Nat
        BY IdentityAssumption DEF Inquiries
      <4>3. QED
        BY <1>6, <3>1, <4>1, <4>2
    <3>3. ASSUME StaysOwn(k) PROVE StaysOwn(k)'
      <4>1. \A j \in Inquiries : j # i => (j \in Equal(k)' <=> j \in Equal(k))
        BY <1>6 DEF Equal
      <4>2. Equal(k)' \in SUBSET Inquiries /\ Equal(k) \in SUBSET Inquiries
        BY DEF Equal
      <4>3. ASSUME Copyable(k)' PROVE Copyable(k)
        <5>1. PICK j \in Equal(k)' : /\ dossier[j].row > 0 /\ dossier[j].known
                                     /\ \A m \in Equal(k)' : dossier[m].row <= dossier[j].row
          BY <1>2, <4>3 DEF Copyable, Newest
        <5>2. j # i /\ j \in Equal(k)
          BY <1>7, <4>1, <4>2, <5>1
        <5>3. ASSUME NEW m \in Equal(k) PROVE dossier[m].row <= dossier[j].row
          <6>1. CASE m = i
            <7>1. dossier[j].row \in Nat
              BY <1>1, <4>2, <5>1 DEF SeekShape, Notebooks, Notebook
            <7>2. QED
              BY <1>7, <5>1, <6>1, <7>1
          <6>2. CASE m # i
            BY <4>1, <4>2, <5>1, <6>2
          <6>3. QED
            BY <6>1, <6>2
        <5>4. QED
          BY <5>1, <5>2, <5>3 DEF Copyable, Newest
      <4>4. ASSUME NEW j \in Equal(k)', j < k PROVE j \in Equal(k) /\ inquiry'[j] = inquiry[j]
        <5>1. j # i
          BY <3>2, <4>4, IdentityAssumption DEF Inquiries, Equal
        <5>2. QED
          BY <1>6, <4>1, <4>2, <4>4, <5>1
      <4>5. QED
        BY <1>2, <3>2, <3>3, <4>3, <4>4 DEF StaysOwn
    <3>4. SeekerNoted(v)'
      BY <1>2, <2>1, <3>1, <3>2 DEF SeekerNoted
    <3>5. Ready(v)' => Ready(v)
      BY <1>2, <2>1, <3>2 DEF Ready
    <3>6. ReadyToCall(v) => ReadyToCall(v)'
      BY <1>2, <2>1, <3>3 DEF ReadyToCall
    <3>7. CallMarked(v) => CallMarked(v)'
      BY <1>2, <2>1, <3>2 DEF CallMarked
    <3>8. QED
      BY <1>2, <2>2, <3>4, <3>5, <3>6, <3>7 DEF SeekerFine
  <2>5. QED
    BY <2>3, <2>4
<1>11. QED
  BY <1>8, <1>9, <1>10 DEF OneCallInv

LEMMA OneCallStep ==
    OneCallInv /\ [IdentityNext]_identityVars => OneCallInv'
<1> SUFFICES ASSUME OneCallInv, [IdentityNext]_identityVars PROVE OneCallInv'
  OBVIOUS
<1>1. IdentityShape /\ SeekShape /\ RequestsKept /\ IdentityShape'
  BY IdentityShapeStep DEF OneCallInv
<1>2. CASE \E w \in IdentityWorkers, i \in Inquiries : TakeInquiry(w, i)
  BY <1>1, <1>2, TakeOneCall
<1>3. CASE \E w \in IdentityWorkers : CancelledBeforeCall(w) \/ DispatchCall(w) \/ AnswerCall(w)
  BY <1>1, <1>3, CancelledOneCall, DispatchOneCall, AnswerOneCall
<1>4. CASE \E i \in Inquiries, valid \in BOOLEAN : Inquire(i, valid)
  BY <1>1, <1>4, InquireOneCall
<1>5. CASE \E w \in IdentityWorkers : SeekerStops(w)
  <2>1. PICK w \in IdentityWorkers : SeekerStops(w)
    BY <1>5
  <2>2. \A v \in IdentityWorkers : seeker'[v] \in {seeker[v], AtRest}
    BY <1>1, <2>1 DEF SeekerStops, SeekShape
  <2>3. QED
    BY <1>1, <2>1, <2>2, QuietOneCall DEF SeekerStops, SeekShape, RequestsKept
<1>6. CASE \E i \in Inquiries : CancelInquiry(i)
  <2>1. PICK i \in Inquiries : CancelInquiry(i)
    BY <1>6
  <2>2. inquiry[i] \in InquiryRows /\ inquiry[i].status # "absent"
    BY <1>1, <2>1 DEF IdentityShape, CancelInquiry, Cancellable, Waiting
  <2>3. PICK row : row = IF inquiry[i].status = "identity_checking"
            THEN [inquiry[i] EXCEPT !.cancel = TRUE, !.status = "cancel_requested"]
            ELSE [inquiry[i] EXCEPT !.cancel = TRUE, !.status = "cancelled", !.lease = 0]
    OBVIOUS
  <2>4. row.cancel = TRUE /\ row.valid = inquiry[i].valid
        /\ row.status \in {"cancel_requested", "cancelled"}
    BY <2>2, <2>3 DEF InquiryRows
  <2>5. inquiry' = [inquiry EXCEPT ![i] = row]
    BY <2>1, <2>3 DEF CancelInquiry
  <2>6. inquiry'[i] = row /\ \A j \in Inquiries : j # i => inquiry'[j] = inquiry[j]
    BY <1>1, <2>5 DEF IdentityShape
  <2>7. \A j \in Inquiries :
              /\ inquiry[j].cancel => inquiry'[j].cancel
              /\ inquiry'[j].valid = inquiry[j].valid
              /\ inquiry'[j].status = "absent" <=> inquiry[j].status = "absent"
              /\ inquiry'[j].status \in Waiting => inquiry[j].status \in Waiting
              /\ inquiry'[j].status \in {"cancelled", "cancel_requested"} => inquiry'[j].cancel
    BY <1>1, <2>2, <2>4, <2>6 DEF SeekShape, Waiting
  <2>8. dossier' = dossier /\ callState' = callState /\ seeker' = seeker /\ desk' = desk
    BY <2>1 DEF CancelInquiry
  <2>9. QED
    BY <1>1, <2>7, <2>8, QuietOneCall DEF RequestsKept
<1>7. CASE \E d \in Desks : LookAtInquiry(d)
  <2>1. PICK d \in Desks : LookAtInquiry(d)
    BY <1>7
  <2>2. inquiry' = inquiry /\ dossier' = dossier /\ callState' = callState /\ seeker' = seeker
    BY <2>1 DEF LookAtInquiry
  <2>3. \A e \in Desks \ {d} : desk'[e] = desk[e]
    BY <1>1, <2>1 DEF LookAtInquiry, IdentityShape
  <2>4. \A j \in Inquiries \cap desk'[d].on : inquiry[j].status # "absent"
    <3>1. CASE \E i \in Inquiries, what \in {"review", "approve"} :
                   /\ inquiry[i].status \in {"pending", "in_review"}
                   /\ desk' = [desk EXCEPT ![d] = [doing |-> what, on |-> {i}]]
      <4>1. PICK i \in Inquiries, what \in {"review", "approve"} :
                   /\ inquiry[i].status \in {"pending", "in_review"}
                   /\ desk' = [desk EXCEPT ![d] = [doing |-> what, on |-> {i}]]
        BY <3>1
      <4>2. desk'[d] = [doing |-> what, on |-> {i}]
        BY <1>1, <4>1 DEF IdentityShape
      <4>3. desk'[d].on = {i}
        BY <4>2
      <4>4. QED
        BY <4>1, <4>3
    <3>2. ASSUME NEW queued,
                 queued = {i \in Inquiries :
                              inquiry[i].status \in {"identity_queued", "identity_checking"}},
                 desk' = [desk EXCEPT ![d] = [doing |-> "network", on |-> queued]]
          PROVE  \A j \in Inquiries \cap desk'[d].on : inquiry[j].status # "absent"
      <4>1. desk'[d] = [doing |-> "network", on |-> queued]
        BY <1>1, <3>2 DEF IdentityShape
      <4>2. desk'[d].on = queued
        BY <4>1
      <4>3. QED
        BY <3>2, <4>2
    <3>3. QED
      BY <2>1, <3>1, <3>2 DEF LookAtInquiry
  <2>5. \A e \in Desks : \A j \in Inquiries \cap desk'[e].on : inquiry[j].status # "absent"
    BY <1>1, <2>3, <2>4 DEF RequestsKept
  <2>6. QED
    BY <1>1, <2>2, <2>5, QuietOneCall DEF SeekShape
<1>8. CASE \E d \in Desks : DecideInquiry(d)
  <2>1. PICK d \in Desks : DecideInquiry(d)
    BY <1>8
  <2>2. dossier' = dossier /\ callState' = callState /\ seeker' = seeker
        /\ desk' = [desk EXCEPT ![d] = DeskDone]
    BY <2>1 DEF DecideInquiry
  <2>3. \A e \in Desks : \A j \in Inquiries \cap desk'[e].on : inquiry[j].status # "absent"
    <3>1. DeskDone.on = {}
      BY DEF DeskDone
    <3>2. desk'[d] = DeskDone /\ \A e \in Desks \ {d} : desk'[e] = desk[e]
      BY <1>1, <2>2 DEF IdentityShape
    <3>3. QED
      BY <1>1, <3>1, <3>2 DEF RequestsKept
  <2>4. ASSUME NEW j \in Inquiries
        PROVE  /\ inquiry[j].cancel => inquiry'[j].cancel
               /\ inquiry'[j].valid = inquiry[j].valid
               /\ inquiry'[j].status = "absent" <=> inquiry[j].status = "absent"
               /\ inquiry'[j].status \in Waiting => inquiry[j].status \in Waiting
               /\ inquiry'[j].status \in {"cancelled", "cancel_requested"} => inquiry'[j].cancel
    <3>1. CASE inquiry'[j] = inquiry[j]
      BY <1>1, <3>1 DEF SeekShape
    <3>2. CASE inquiry'[j] # inquiry[j]
      <4>1. PICK status \in {"in_review", "closed", "research_queued"}, found \in BOOLEAN :
                Rewrite(d, status, found)
        BY <2>1, <3>2 DEF DecideInquiry
      <4>2. /\ j \in desk[d].on
            /\ inquiry'[j] = [inquiry[j] EXCEPT !.status = status,
                                                !.company = inquiry[j].company \/ found]
        BY <3>2, <4>1 DEF Rewrite
      <4>3. inquiry[j] \in InquiryRows /\ inquiry[j].status # "absent"
        BY <1>1, <4>2 DEF IdentityShape, RequestsKept
      <4>4. PICK company : company = (inquiry[j].company \/ found)
        OBVIOUS
      <4>5. inquiry'[j] = [inquiry[j] EXCEPT !.status = status, !.company = company]
        BY <4>2, <4>4
      <4>6. inquiry'[j].status = status /\ inquiry'[j].cancel = inquiry[j].cancel
            /\ inquiry'[j].valid = inquiry[j].valid
        BY <4>3, <4>5 DEF InquiryRows
      <4>7. QED
        BY <4>1, <4>3, <4>6 DEF Waiting
    <3>3. QED
      BY <3>1, <3>2
  <2>5. QED
    BY <1>1, <2>2, <2>3, <2>4, QuietOneCall
<1>9. CASE IdentityTick \/ UNCHANGED identityVars
  <2>1. /\ inquiry' = inquiry /\ dossier' = dossier /\ callState' = callState
        /\ seeker' = seeker /\ desk' = desk
    BY <1>9 DEF IdentityTick, identityVars
  <2>2. QED
    BY <1>1, <2>1, QuietOneCall DEF SeekShape, RequestsKept
<1>10. QED
  BY <1>2, <1>3, <1>4, <1>5, <1>6, <1>7, <1>8, <1>9 DEF IdentityNext

LEMMA OneCallBegins == IdentityInit => OneCallInv
<1> SUFFICES ASSUME IdentityInit PROVE OneCallInv
  OBVIOUS
<1>1. IdentityShape
  BY IdentityBegins
<1>2. /\ \A i \in Inquiries : /\ inquiry[i].status \in {"absent", "closed"}
                              /\ inquiry[i].status = "absent" => dossier[i] = NoDossier
      /\ \A i \in Inquiries : dossier[i] = NoDossier
      /\ \A w \in IdentityWorkers : seeker[w] = AtRest
  BY DEF IdentityInit
<1>3. \A i \in Inquiries, j \in Inquiries :
          inquiry[i].status = "absent" /\ i < j => inquiry[j].status = "absent"
  <2>1. \A i \in Inquiries : i # 1 => inquiry[i].status = "absent"
    BY DEF IdentityInit
  <2>2. \A i \in Inquiries, j \in Inquiries : i < j => j # 1
    BY IdentityAssumption DEF Inquiries
  <2>3. QED
    BY <2>1, <2>2
<1>4. AtRest.doing = "idle" /\ NoDossier.row = 0
  BY DEF AtRest, NoDossier
<1>5. \A d \in Desks : desk[d] \in {DeskFree, DeskDone}
  BY DEF IdentityInit
<1>6. RequestsKept
  <2>1. \A d \in Desks : desk[d].on = {}
    BY <1>5 DEF DeskFree, DeskDone
  <2>2. QED
    BY <1>2, <1>3, <1>4, <2>1 DEF RequestsKept
<1>7. callState \in [Inquiries -> [Tokens -> CallStates]]
  BY DEF IdentityInit, CallStates
<1>8. SeekShape
  <2>1. dossier \in [Inquiries -> Notebooks] /\ seeker \in [IdentityWorkers -> Seekers]
    BY RestingSeeker DEF IdentityInit
  <2>2. QED
    BY <1>2, <1>7, <2>1 DEF SeekShape
<1>9. RowsApart /\ OneIdentityCall /\ \A w \in IdentityWorkers : SeekerFine(w)
  BY <1>2, <1>4 DEF RowsApart, OneIdentityCall, SeekerFine, Ready
<1>10. QED
  BY <1>1, <1>6, <1>8, <1>9 DEF OneCallInv

(* Never two calls of one request under way, however many workers took it,    *)
(* whatever they copied from equal requests and however late their leases ran   *)
(* out.  (the in_flight mark of the progress and the ledger key of the call)   *)
THEOREM OneCallAtATime == IdentitySpec => []OneIdentityCall
<1>1. OneCallInv => OneIdentityCall
  BY DEF OneCallInv
<1>2. QED
  BY <1>1, OneCallBegins, OneCallStep, PTL DEF IdentitySpec

-----------------------------------------------------------------------------
(* Award notices: who holds the lock of a project has read what still holds.  *)

AwardRows ==
    [status : {"absent", "published", "retracted"},
     facts : {<<>>} \cup {NoticeFacts(n) : n \in Notices},
     rounds : Seq(Notices)]

TenderShape ==
    /\ award \in [Projects -> AwardRows]
    /\ approver = [a \in Approvers |-> approver[a]]
    /\ \A a \in Approvers :
          /\ approver[a].step \in {"idle", "chosen", "locked"}
          /\ approver[a].step # "idle" => approver[a].notice \in Notices

(* The facts of a project are those of the notice reviewed last.             *)
LastReviewed ==
    \A p \in Projects :
        /\ award[p].rounds = <<>> <=> award[p].status = "absent"
        /\ award[p].rounds # <<>> =>
              award[p].facts = NoticeFacts(award[p].rounds[Len(award[p].rounds)])
CorrectedOnly ==
    \A p \in Projects : \A i \in 2 .. Len(award[p].rounds) :
        NoticeFacts(award[p].rounds[i]) # NoticeFacts(award[p].rounds[i - 1]) =>
            TextOf[award[p].rounds[i]].corrects

LockedAlone ==
    \A a, b \in Approvers :
        a # b /\ approver[a].step = "locked" /\ approver[b].step = "locked" =>
            ProjectOf(approver[a].notice) # ProjectOf(approver[b].notice)
(* But for a retraction.                                                    *)
StillAsSeen(a) ==
    LET seen == approver[a].seen  now == award[ProjectOf(approver[a].notice)] IN
    /\ seen.facts = now.facts
    /\ seen.status = "absent" <=> now.status = "absent"
    /\ Agrees(approver[a].notice, seen)
SeenHolds == \A a \in Approvers : approver[a].step = "locked" => StillAsSeen(a)

TenderInv == TenderShape /\ LastReviewed /\ CorrectedOnly /\ LockedAlone /\ SeenHolds

LEMMA NoticeProject == \A n \in Notices : ProjectOf(n) \in Projects
  BY DEF Projects

LEMMA TenderBegins == TenderInit => TenderInv
<1> SUFFICES ASSUME TenderInit PROVE TenderInv
  OBVIOUS
<1>1. \A p \in Projects : award[p] = NoAward
  BY DEF TenderInit
<1>2. \A a \in Approvers : approver[a].step = "idle"
  BY DEF TenderInit, ApproverFree
<1>3. NoAward \in AwardRows /\ NoAward.rounds = <<>> /\ NoAward.status = "absent"
  BY DEF NoAward, AwardRows
<1>4. TenderShape
  BY <1>1, <1>2, <1>3 DEF TenderInit, TenderShape
<1>5. LastReviewed /\ CorrectedOnly
  BY <1>1, <1>3 DEF LastReviewed, CorrectedOnly
<1>6. QED
  BY <1>2, <1>4, <1>5 DEF TenderInv, LockedAlone, SeenHolds

(* Nobody reads or writes a shared event: an approver leaves or chooses.      *)
LEMMA ApproversMove ==
    ASSUME TenderInv, UNCHANGED award, NEW a \in Approvers, NEW row,
           approver' = [approver EXCEPT ![a] = row],
           row.step \in {"idle", "chosen"}, row.step # "idle" => row.notice \in Notices
    PROVE  TenderInv'
<1>1. approver'[a] = row /\ \A b \in Approvers \ {a} : approver'[b] = approver[b]
  BY DEF TenderInv, TenderShape
<1>2. TenderShape'
  BY <1>1 DEF TenderInv, TenderShape
<1>3. (LastReviewed /\ CorrectedOnly)'
  BY DEF TenderInv, LastReviewed, CorrectedOnly
<1>4. LockedAlone'
  BY <1>1 DEF TenderInv, LockedAlone
<1>5. SeenHolds'
  BY <1>1 DEF TenderInv, SeenHolds, StillAsSeen, Agrees
<1>6. QED
  BY <1>2, <1>3, <1>4, <1>5 DEF TenderInv

LEMMA LockKeepsTender ==
    ASSUME TenderInv, NEW a \in Approvers, LockProject(a)
    PROVE  TenderInv'
<1> DEFINE n == approver[a].notice
           now == award[ProjectOf(n)]
<1>1. n \in Notices /\ ProjectOf(n) \in Projects
  BY NoticeProject DEF TenderInv, TenderShape, LockProject
<1>2. CASE approver' = [approver EXCEPT ![a] = ApproverFree]
  BY <1>2, ApproversMove DEF LockProject, ApproverFree
<1>3. CASE /\ approver' = [approver EXCEPT ![a] = [step |-> "locked", notice |-> n, seen |-> now]]
           /\ Agrees(n, now)
  <2>1. /\ approver'[a].step = "locked" /\ approver'[a].notice = n /\ approver'[a].seen = now
        /\ \A b \in Approvers \ {a} : approver'[b] = approver[b]
    BY <1>3 DEF TenderInv, TenderShape
  <2>2. UNCHANGED award
    BY DEF LockProject
  <2>3. TenderShape'
    BY <1>1, <1>3, <2>1, <2>2 DEF TenderInv, TenderShape
  <2>4. (LastReviewed /\ CorrectedOnly)'
    BY <2>2 DEF TenderInv, LastReviewed, CorrectedOnly
  <2>5. LockedAlone'
    BY <2>1 DEF TenderInv, LockedAlone, LockProject, LockFree
  <2>6. SeenHolds'
    <3>1. SUFFICES ASSUME NEW b \in Approvers, approver'[b].step = "locked"
                   PROVE  StillAsSeen(b)'
      BY DEF SeenHolds
    <3>2. CASE b = a
      BY <1>3, <2>1, <2>2, <3>2 DEF StillAsSeen, Agrees
    <3>3. CASE b # a
      BY <2>1, <2>2, <3>1, <3>3 DEF TenderInv, SeenHolds, StillAsSeen, Agrees
    <3>4. QED
      BY <3>2, <3>3
  <2>7. QED
    BY <2>3, <2>4, <2>5, <2>6 DEF TenderInv
<1>4. QED
  BY <1>2, <1>3 DEF LockProject

LEMMA CommitKeepsTender ==
    ASSUME TenderInv, NEW a \in Approvers, CommitApproval(a)
    PROVE  TenderInv'
<1> DEFINE n == approver[a].notice
           p == ProjectOf(n)
           seen == approver[a].seen
<1>1. n \in Notices /\ p \in Projects /\ approver[a].step = "locked" /\ award[p] \in AwardRows
  BY NoticeProject DEF TenderInv, TenderShape, CommitApproval
<1>2. /\ seen.facts = award[p].facts /\ (seen.status = "absent" <=> award[p].status = "absent")
      /\ Agrees(n, seen)
  BY <1>1 DEF TenderInv, SeenHolds, StillAsSeen
<1>3. PICK status : status = IF seen.status = "absent" THEN "published" ELSE award[p].status
  OBVIOUS
<1>4. award' = [award EXCEPT ![p] =
          [status |-> status, facts |-> NoticeFacts(n), rounds |-> Append(award[p].rounds, n)]]
  BY <1>1, <1>2, <1>3 DEF CommitApproval, TenderInv, TenderShape
<1>5. /\ award'[p].status = status /\ award'[p].facts = NoticeFacts(n)
      /\ award'[p].rounds = Append(award[p].rounds, n)
      /\ \A q \in Projects \ {p} : award'[q] = award[q]
  BY <1>1, <1>4 DEF TenderInv, TenderShape
<1>6. status # "absent" /\ status \in {"published", "retracted"}
  BY <1>1, <1>2, <1>3 DEF AwardRows
<1>7. approver'[a].step = "idle" /\ \A b \in Approvers \ {a} : approver'[b] = approver[b]
  BY DEF CommitApproval, TenderInv, TenderShape, ApproverFree
<1>8. award[p].rounds \in Seq(Notices)
  BY <1>1 DEF AwardRows
<1> HIDE DEF n, p, seen
<1>9. PICK new : new = Append(award[p].rounds, n)
  OBVIOUS
<1>10. /\ new \in Seq(Notices) /\ Len(new) = Len(award[p].rounds) + 1 /\ new[Len(new)] = n
       /\ new # <<>> /\ \A i \in 1 .. Len(award[p].rounds) : new[i] = award[p].rounds[i]
  BY <1>1, <1>8, <1>9
<1>11. TenderShape'
  <2>1. [status |-> status, facts |-> NoticeFacts(n), rounds |-> new] \in AwardRows
    BY <1>1, <1>6, <1>10 DEF AwardRows
  <2>2. award' = [award EXCEPT ![p] = [status |-> status, facts |-> NoticeFacts(n), rounds |-> new]]
    BY <1>4, <1>9
  <2>3. award' \in [Projects -> AwardRows]
    BY <2>1, <2>2 DEF TenderInv, TenderShape
  <2>4. QED
    BY <1>7, <2>3 DEF TenderInv, TenderShape, CommitApproval
<1>12. LastReviewed'
  <2>1. SUFFICES ASSUME NEW q \in Projects
                 PROVE  /\ award'[q].rounds = <<>> <=> award'[q].status = "absent"
                        /\ award'[q].rounds # <<>> =>
                              award'[q].facts = NoticeFacts(award'[q].rounds[Len(award'[q].rounds)])
    BY DEF LastReviewed
  <2>2. CASE q = p
    <3>1. award'[q].rounds = new /\ award'[q].status = status /\ award'[q].facts = NoticeFacts(n)
      BY <1>5, <1>9, <2>2
    <3>2. QED
      BY <1>6, <1>10, <3>1
  <2>3. CASE q # p
    BY <1>5, <2>3 DEF TenderInv, LastReviewed
  <2>4. QED
    BY <2>2, <2>3
<1>13. CorrectedOnly'
  <2>1. SUFFICES ASSUME NEW q \in Projects, NEW i \in 2 .. Len(award'[q].rounds),
                        NoticeFacts(award'[q].rounds[i]) # NoticeFacts(award'[q].rounds[i - 1])
                 PROVE  TextOf[award'[q].rounds[i]].corrects
    BY DEF CorrectedOnly
  <2>2. CASE q # p
    BY <1>5, <2>1, <2>2 DEF TenderInv, CorrectedOnly
  <2>3. CASE q = p /\ i # Len(new)
    <3>1. i \in 2 .. Len(award[p].rounds) /\ new[i] = award[p].rounds[i]
          /\ new[i - 1] = award[p].rounds[i - 1] /\ award'[q].rounds = new
      BY <1>5, <1>8, <1>9, <1>10, <2>1, <2>3
    <3>2. QED
      BY <1>1, <2>1, <3>1 DEF TenderInv, CorrectedOnly
  <2>4. CASE q = p /\ i = Len(new)
    <3>1. /\ award[p].rounds # <<>> /\ new[i] = n /\ award'[q].rounds = new
          /\ new[i - 1] = award[p].rounds[Len(award[p].rounds)]
      BY <1>5, <1>8, <1>9, <1>10, <2>1, <2>4
    <3>2. award[p].status # "absent" /\ award[p].facts = NoticeFacts(new[i - 1])
      BY <1>1, <3>1 DEF TenderInv, LastReviewed
    <3>3. TextOf[n].corrects
      BY <1>2, <2>1, <3>1, <3>2 DEF Agrees
    <3>4. QED
      BY <3>1, <3>3
  <2>5. QED
    BY <2>2, <2>3, <2>4
<1>14. LockedAlone'
  BY <1>7 DEF TenderInv, LockedAlone
<1>15. SeenHolds'
  <2>1. SUFFICES ASSUME NEW b \in Approvers, approver'[b].step = "locked"
                 PROVE  StillAsSeen(b)'
    BY DEF SeenHolds
  <2>2. b # a /\ approver'[b] = approver[b] /\ approver[b].notice \in Notices
    BY <1>7, <2>1 DEF TenderInv, TenderShape
  <2>3. ProjectOf(approver[b].notice) \in Projects \ {p}
    BY <1>1, <2>1, <2>2, NoticeProject DEF TenderInv, LockedAlone, p, n
  <2>4. QED
    BY <1>5, <2>1, <2>2, <2>3 DEF TenderInv, SeenHolds, StillAsSeen, Agrees
<1>16. QED
  BY <1>11, <1>12, <1>13, <1>14, <1>15 DEF TenderInv

LEMMA RetractionKeepsTender ==
    ASSUME TenderInv, NEW p \in Projects, RetractAward(p)
    PROVE  TenderInv'
<1>1. award[p] \in AwardRows /\ award[p].status = "published" /\ UNCHANGED approver
  BY DEF TenderInv, TenderShape, RetractAward
<1>2. award[p] = [status |-> award[p].status, facts |-> award[p].facts, rounds |-> award[p].rounds]
  BY <1>1 DEF AwardRows
<1>3. award' = [award EXCEPT ![p] = [status |-> "retracted", facts |-> award[p].facts,
                                     rounds |-> award[p].rounds]]
  <2>1. [award[p] EXCEPT !.status = "retracted"]
          = [status |-> "retracted", facts |-> award[p].facts, rounds |-> award[p].rounds]
    BY <1>2
  <2>2. award' = [award EXCEPT ![p] = [award[p] EXCEPT !.status = "retracted"]]
    BY DEF RetractAward
  <2>3. QED
    BY <2>1, <2>2, Zenon
<1>4. /\ award'[p].status = "retracted" /\ award'[p].facts = award[p].facts
      /\ award'[p].rounds = award[p].rounds
      /\ \A q \in Projects \ {p} : award'[q] = award[q]
  BY <1>3 DEF TenderInv, TenderShape
<1>5. TenderShape'
  BY <1>1, <1>3 DEF TenderInv, TenderShape, AwardRows
<1>6. LastReviewed' /\ CorrectedOnly'
  <2>1. LastReviewed /\ CorrectedOnly
    BY DEF TenderInv
  <2>2. \A q \in Projects :
            /\ award'[q].facts = award[q].facts /\ award'[q].rounds = award[q].rounds
            /\ award'[q].status = "absent" <=> award[q].status = "absent"
    BY <1>1, <1>4
  <2>3. LastReviewed'
    BY <2>1, <2>2 DEF LastReviewed
  <2>4. CorrectedOnly'
    BY <2>1, <2>2 DEF CorrectedOnly
  <2>5. QED
    BY <2>3, <2>4
<1>7. LockedAlone'
  BY <1>1 DEF TenderInv, LockedAlone
<1>8. SeenHolds'
  <2>1. SUFFICES ASSUME NEW b \in Approvers, approver'[b].step = "locked"
                 PROVE  StillAsSeen(b)'
    BY DEF SeenHolds
  <2>2. approver'[b] = approver[b] /\ ProjectOf(approver[b].notice) \in Projects
    BY <1>1, <2>1, NoticeProject DEF TenderInv, TenderShape
  <2>3. QED
    BY <1>1, <1>4, <2>1, <2>2 DEF TenderInv, SeenHolds, StillAsSeen, Agrees
<1>9. QED
  BY <1>5, <1>6, <1>7, <1>8 DEF TenderInv

LEMMA TenderStep == TenderInv /\ [TenderNext]_tenderVars => TenderInv'
<1> SUFFICES ASSUME TenderInv, [TenderNext]_tenderVars PROVE TenderInv'
  OBVIOUS
<1>1. CASE UNCHANGED <<award, approver>>
  BY <1>1 DEF TenderInv, TenderShape, LastReviewed, CorrectedOnly, LockedAlone, SeenHolds,
     StillAsSeen, Agrees
<1>2. ASSUME NEW n \in Notices, FileNotice(n) \/ LosePermission(n) \/ WithdrawEvidence(n)
      PROVE  UNCHANGED <<award, approver>>
  BY <1>2 DEF FileNotice, LosePermission, WithdrawEvidence
<1>3. ASSUME NEW n \in Notices, RefuseEvent(PrivateEvent(n)) PROVE UNCHANGED <<award, approver>>
  BY <1>3 DEF RefuseEvent
<1>4. ASSUME NEW a \in Approvers, NEW n \in Notices, ChooseNotice(a, n) PROVE TenderInv'
  BY <1>4, ApproversMove DEF ChooseNotice
<1>5. ASSUME NEW a \in Approvers, FailApproval(a) PROVE TenderInv'
  BY <1>5, ApproversMove DEF FailApproval, ApproverFree
<1>6. CASE UNCHANGED tenderVars
  BY <1>1, <1>6 DEF tenderVars
<1>7. CASE TenderNext
  <2>1. ASSUME NEW a \in Approvers,
               (\E n \in Notices : ChooseNotice(a, n)) \/ LockProject(a) \/ CommitApproval(a)
               \/ FailApproval(a)
        PROVE  TenderInv'
    BY <1>4, <1>5, <2>1, LockKeepsTender, CommitKeepsTender
  <2>2. ASSUME NEW p \in Projects, RetractAward(p) PROVE TenderInv'
    BY <2>2, RetractionKeepsTender
  <2>3. QED
    BY <1>1, <1>2, <1>3, <1>7, <2>1, <2>2 DEF TenderNext
<1>8. QED
  BY <1>1, <1>6, <1>7

(* The facts of the notice that was reviewed last are shown as long as its     *)
(* evidence is displayed, no superseded ones ever, and only a correction       *)
(* changes them, whoever approves at the same time.  (promote_private_event    *)
(* under the lock of the project, tender_observations)                       *)
THEOREM LastReviewIsShown == TenderSpec => []ReviewedLastIsShown
<1>1. TenderInv => ReviewedLastIsShown
  <2>1. SUFFICES ASSUME TenderInv, NEW p \in Projects, award[p].status = "published"
                 PROVE  LET last == award[p].rounds[Len(award[p].rounds)] IN
                        /\ last \notin struckNotices => ShownFacts(p) = NoticeFacts(last)
                        /\ ShownFacts(p) \in {NoticeFacts(last), <<>>}
    BY DEF ReviewedLastIsShown, TenderInv, CorrectedOnly
  <2>2. PICK rounds \in Seq(Notices) : rounds = award[p].rounds /\ rounds # <<>>
    BY <2>1 DEF TenderInv, TenderShape, AwardRows, LastReviewed
  <2>3. award[p].facts = NoticeFacts(rounds[Len(rounds)])
    BY <2>1, <2>2 DEF TenderInv, LastReviewed
  <2>4. Len(rounds) \in CurrentRounds(p)
    BY <2>2, <2>3 DEF CurrentRounds
  <2>5. rounds[Len(rounds)] \notin struckNotices => Shows(p)
    BY <2>1, <2>2, <2>4 DEF Shows
  <2>6. QED
    BY <2>2, <2>3, <2>5 DEF ShownFacts
<1>2. QED
  BY <1>1, TenderBegins, TenderStep, PTL DEF TenderSpec

-----------------------------------------------------------------------------
(* Watch schedules: what a recorded outcome leaves of the cooldown.           *)

ScheduleOf(row, next, cooldown, success, failures, unchanged, lastJob, lastKey) ==
    [row |-> row, next |-> next, cooldown |-> cooldown, success |-> success,
     failures |-> failures, unchanged |-> unchanged, lastJob |-> lastJob, lastKey |-> lastKey]
KeyRows == [job : {0} \cup CheckJobs, status : {"none"} \cup EndedCheck, heart : Int]
IsSchedule(s) ==
    /\ s = ScheduleOf(s.row, s.next, s.cooldown, s.success, s.failures, s.unchanged, s.lastJob,
                      s.lastKey)
    /\ s.row \in BOOLEAN /\ s.cooldown \in Int /\ s.failures \in Nat /\ s.lastKey \in KeyRows
CheckRows ==
    [status : ActiveWatchJob \cup EndedCheck \cup {"absent"}, company : SUBSET Watched,
     trigger : {"manual", "watchlist"}, heart : Int]

MadeChecks == {j \in CheckJobs : checkJob[j].status # "absent"}

WatchShape ==
    /\ schedule = [c \in Watched |-> schedule[c]]
    /\ \A c \in Watched : IsSchedule(schedule[c])
    /\ checkJob \in [CheckJobs -> CheckRows]
    /\ \A r \in repeats :
          r.key \in KeyRows /\ r.key.job \in MadeChecks /\ r.key.heart <= watchClock
    /\ scheduler = [s \in Schedulers |-> scheduler[s]]
    /\ \A s \in Schedulers :
          /\ scheduler[s].selected \in SUBSET Watched
          /\ scheduler[s].now \in Nat /\ scheduler[s].now <= watchClock
    /\ watchClock \in Nat
ChecksNumbered == \E n \in Nat : n <= CheckJobMax /\ MadeChecks = 1 .. n
ChecksMade ==
    \A j \in CheckJobs :
        /\ checkJob[j].heart <= watchClock /\ checkJob[j].heart >= Never
        /\ checkJob[j].status = "absent" => checkJob[j].heart = Never
        /\ checkJob[j].status # "absent" => \E c \in Watched : checkJob[j].company = {c}
(* The cooldown covers the outcome recorded last, and the end of its job.      *)
CooldownCovers(c) ==
    LET key == schedule[c].lastKey IN
    key.job # 0 =>
        /\ schedule[c].row /\ key.job \in MadeChecks /\ checkJob[key.job].company = {c}
        /\ key.heart <= watchClock
        /\ schedule[c].cooldown >= key.heart + WatchCooldown
        /\ schedule[c].cooldown >= checkJob[key.job].heart + WatchCooldown
EndsCovered == \A c \in Watched : CooldownCovers(c)

WatchInv == WatchShape /\ ChecksNumbered /\ ChecksMade /\ EndsCovered

LEMMA WatchNumbers ==
    /\ WatchCooldown \in Nat \ {0} /\ FailureWaitMax \in Nat \ {0} /\ CheckJobMax \in Nat
    /\ CheckWorkers \in Nat /\ WatchClockEnd \in Nat /\ IsFiniteSet(Watched)
  BY WatchAssumption

LEMMA LeastOfTwo ==
    ASSUME NEW a \in Int, NEW b \in Int
    PROVE  Least(a, b) = IF a <= b THEN a ELSE b
<1>1. CASE a <= b
  <2>1. a \in {a, b} /\ \A y \in {a, b} : a <= y
    BY <1>1
  <2>2. \A x \in {a, b} : (\A y \in {a, b} : x <= y) => x = a
    BY <1>1
  <2>3. QED
    BY <1>1, <2>1, <2>2 DEF Least, Min
<1>2. CASE ~(a <= b)
  <2>1. b \in {a, b} /\ \A y \in {a, b} : b <= y
    BY <1>2
  <2>2. \A x \in {a, b} : (\A y \in {a, b} : x <= y) => x = b
    BY <1>2
  <2>3. QED
    BY <1>2, <2>1, <2>2 DEF Least, Min
<1>3. QED
  BY <1>1, <1>2

LEMMA FailuresWait ==
    ASSUME WatchCooldown <= FailureWaitMax, NEW failures \in Nat \ {0}
    PROVE  FailureWait(failures) \in Nat /\ FailureWait(failures) >= WatchCooldown
<1>1. PICK n : n = Least(failures - 1, 10)
  OBVIOUS
<1>2. n \in 0 .. 10
  BY <1>1, LeastOfTwo
<1>3. 2 ^ n \in Nat /\ 2 ^ n >= 1
  <2>1. CASE n = 0
    BY <2>1
  <2>2. CASE n = 1
    BY <2>2
  <2>3. CASE n = 2
    BY <2>3
  <2>4. CASE n = 3
    BY <2>4
  <2>5. CASE n = 4
    BY <2>5
  <2>6. CASE n = 5
    BY <2>6
  <2>7. CASE n = 6
    BY <2>7
  <2>8. CASE n = 7
    BY <2>8
  <2>9. CASE n = 8
    BY <2>9
  <2>10. CASE n = 9
    BY <2>10
  <2>11. CASE n = 10
    BY <2>11
  <2>12. QED
    BY <1>2, <2>1, <2>2, <2>3, <2>4, <2>5, <2>6, <2>7, <2>8, <2>9, <2>10, <2>11
<1>4. PICK m \in Nat : m = 2 ^ n /\ m >= 1
  BY <1>3
<1>5. WatchCooldown * m \in Nat /\ WatchCooldown * m >= WatchCooldown
  BY <1>4, WatchNumbers
<1>6. FailureWait(failures) = Least(WatchCooldown * m, FailureWaitMax)
  BY <1>1, <1>4 DEF FailureWait
<1>7. QED
  BY <1>5, <1>6, LeastOfTwo, WatchNumbers

LEMMA OneOwner ==
    ASSUME NEW j, NEW c \in Watched, checkJob[j].company = {c}
    PROVE  OwnerOf(j) = c
  BY DEF OwnerOf

(* Recording an outcome: nothing happens, or the cooldown begins anew.        *)
LEMMA OutcomeCools ==
    ASSUME WatchCooldown <= FailureWaitMax, watchClock \in Nat,
           NEW s, IsSchedule(s), NEW key \in KeyRows, NEW good, NEW found, NEW changed,
           NEW after, after = WithOutcome(s, key, good, found, changed)
    PROVE  \/ after = s /\ (~s.row \/ s.lastKey = key)
           \/ /\ IsSchedule(after) /\ s.row /\ after.row /\ after.lastKey = key
              /\ after.cooldown >= watchClock + WatchCooldown
<1>1. CASE ~s.row \/ s.lastKey = key
  BY <1>1 DEF WithOutcome
<1>2. CASE ~(~s.row \/ s.lastKey = key)
  <2>1. PICK seen : seen = [s EXCEPT !.lastKey = key, !.lastJob = key.job]
    OBVIOUS
  <2>2. seen = ScheduleOf(s.row, s.next, s.cooldown, s.success, s.failures, s.unchanged, key.job,
                          key)
    <3>1. seen = [[s EXCEPT !.lastKey = key] EXCEPT !.lastJob = key.job]
      BY <2>1 DEF IsSchedule, ScheduleOf
    <3>2. [s EXCEPT !.lastKey = key]
            = ScheduleOf(s.row, s.next, s.cooldown, s.success, s.failures, s.unchanged, s.lastJob,
                         key)
      BY DEF IsSchedule, ScheduleOf
    <3>3. [ScheduleOf(s.row, s.next, s.cooldown, s.success, s.failures, s.unchanged, s.lastJob, key)
              EXCEPT !.lastJob = key.job]
            = ScheduleOf(s.row, s.next, s.cooldown, s.success, s.failures, s.unchanged, key.job,
                         key)
      BY DEF ScheduleOf
    <3>4. QED
      BY <3>1, <3>2, <3>3
  <2>3. CASE good
    <3>1. PICK calm : calm =
              LET newer == s.success = Never \/ found > s.success IN
              IF ~newer THEN s.unchanged ELSE IF changed THEN 0 ELSE s.unchanged + 1
      OBVIOUS
    <3>2. PICK success : success =
              IF s.success = Never \/ found > s.success THEN found ELSE s.success
      OBVIOUS
    <3>3. PICK cooldown \in Int : cooldown = watchClock + WatchCooldown
                                  /\ cooldown >= watchClock + WatchCooldown
      BY WatchNumbers
    <3>4. PICK next : next = Greatest({watchClock + WatchCooldown, found + IntervalAfter(calm)})
      OBVIOUS
    <3>5. after = [seen EXCEPT !.success = success, !.unchanged = calm, !.failures = 0,
                               !.cooldown = cooldown, !.next = next]
      BY <1>2, <2>1, <2>3, <3>1, <3>2, <3>3, <3>4, Zenon DEF WithOutcome
    <3>6. PICK a : a = [[seen EXCEPT !.success = success] EXCEPT !.unchanged = calm]
      OBVIOUS
    <3>7. a = ScheduleOf(s.row, s.next, s.cooldown, success, s.failures, calm, key.job, key)
      <4>1. [seen EXCEPT !.success = success]
              = ScheduleOf(s.row, s.next, s.cooldown, success, s.failures, s.unchanged, key.job, key)
        BY <2>2 DEF ScheduleOf
      <4>2. [ScheduleOf(s.row, s.next, s.cooldown, success, s.failures, s.unchanged, key.job, key)
                EXCEPT !.unchanged = calm]
              = ScheduleOf(s.row, s.next, s.cooldown, success, s.failures, calm, key.job, key)
        BY DEF ScheduleOf
      <4>3. QED
        BY <3>6, <4>1, <4>2
    <3>8. after = [[[a EXCEPT !.failures = 0] EXCEPT !.cooldown = cooldown] EXCEPT !.next = next]
      BY <2>2, <3>5, <3>6 DEF ScheduleOf
    <3>9. [a EXCEPT !.failures = 0]
            = ScheduleOf(s.row, s.next, s.cooldown, success, 0, calm, key.job, key)
      BY <3>7 DEF ScheduleOf
    <3>10. [ScheduleOf(s.row, s.next, s.cooldown, success, 0, calm, key.job, key)
              EXCEPT !.cooldown = cooldown]
            = ScheduleOf(s.row, s.next, cooldown, success, 0, calm, key.job, key)
      BY DEF ScheduleOf
    <3>11. [ScheduleOf(s.row, s.next, cooldown, success, 0, calm, key.job, key) EXCEPT !.next = next]
            = ScheduleOf(s.row, next, cooldown, success, 0, calm, key.job, key)
      BY DEF ScheduleOf
    <3>12. after = ScheduleOf(s.row, next, cooldown, success, 0, calm, key.job, key)
      BY <3>8, <3>9, <3>10, <3>11
    <3>13. QED
      BY <1>2, <3>3, <3>12 DEF IsSchedule, ScheduleOf
  <2>4. CASE ~good
    <3>1. PICK failed \in Nat \ {0} : failed = s.failures + 1
      BY DEF IsSchedule
    <3>2. PICK cooldown \in Int : cooldown = watchClock + FailureWait(failed)
                                  /\ cooldown >= watchClock + WatchCooldown
      BY <3>1, FailuresWait, WatchNumbers
    <3>3. after = [seen EXCEPT !.failures = failed, !.next = cooldown, !.cooldown = cooldown]
      BY <1>2, <2>1, <2>4, <3>1, <3>2 DEF WithOutcome
    <3>4. after = [[[seen EXCEPT !.failures = failed] EXCEPT !.next = cooldown]
                       EXCEPT !.cooldown = cooldown]
      BY <2>2, <3>3 DEF ScheduleOf
    <3>5. [seen EXCEPT !.failures = failed]
            = ScheduleOf(s.row, s.next, s.cooldown, s.success, failed, s.unchanged, key.job, key)
      BY <2>2 DEF ScheduleOf
    <3>6. [ScheduleOf(s.row, s.next, s.cooldown, s.success, failed, s.unchanged, key.job, key)
              EXCEPT !.next = cooldown]
            = ScheduleOf(s.row, cooldown, s.cooldown, s.success, failed, s.unchanged, key.job, key)
      BY DEF ScheduleOf
    <3>7. [ScheduleOf(s.row, cooldown, s.cooldown, s.success, failed, s.unchanged, key.job, key)
              EXCEPT !.cooldown = cooldown]
            = ScheduleOf(s.row, cooldown, cooldown, s.success, failed, s.unchanged, key.job, key)
      BY DEF ScheduleOf
    <3>8. after = ScheduleOf(s.row, cooldown, cooldown, s.success, failed, s.unchanged, key.job, key)
      BY <3>4, <3>5, <3>6, <3>7
    <3>9. QED
      BY <1>2, <3>1, <3>2, <3>8 DEF IsSchedule, ScheduleOf
  <2>5. QED
    BY <2>3, <2>4
<1>3. QED
  BY <1>1, <1>2

(* The steps that only move jobs that were made.                             *)
CheckOf(status, company, trigger, heart) ==
    [status |-> status, company |-> company, trigger |-> trigger, heart |-> heart]
NewSpaced ==
    \A j, k \in CheckJobs :
        (/\ checkJob[j].status = "absent" /\ checkJob'[j].status = "queued"
         /\ checkJob'[j].trigger = "watchlist"
         /\ checkJob[k].company = checkJob'[j].company
         /\ checkJob[k].heart # Never
         /\ schedule[OwnerOf(k)].lastKey.job = k)
            => watchClock >= checkJob[k].heart + WatchCooldown

LEMMA StatusWritten ==
    ASSUME WatchInv, NEW j \in CheckJobs, NEW status, NEW row,
           row = [checkJob[j] EXCEPT !.status = status]
    PROVE  row = CheckOf(status, checkJob[j].company, checkJob[j].trigger, checkJob[j].heart)
<1>1. PICK was \in CheckRows : was = checkJob[j]
  BY DEF WatchInv, WatchShape
<1>2. was = CheckOf(was.status, was.company, was.trigger, was.heart)
  BY DEF CheckRows, CheckOf
<1>3. [was EXCEPT !.status = status] = CheckOf(status, was.company, was.trigger, was.heart)
  BY <1>2 DEF CheckOf
<1>4. QED
  BY <1>1, <1>3

LEMMA EndWritten ==
    ASSUME WatchInv, NEW j \in CheckJobs, NEW status, NEW heart, NEW row,
           row = [[checkJob[j] EXCEPT !.status = status] EXCEPT !.heart = heart]
    PROVE  row = CheckOf(status, checkJob[j].company, checkJob[j].trigger, heart)
<1>1. PICK part : part = [checkJob[j] EXCEPT !.status = status]
  OBVIOUS
<1>2. part = CheckOf(status, checkJob[j].company, checkJob[j].trigger, checkJob[j].heart)
  BY <1>1, StatusWritten
<1>3. [part EXCEPT !.heart = heart]
        = CheckOf(status, checkJob[j].company, checkJob[j].trigger, heart)
  BY <1>2 DEF CheckOf
<1>4. QED
  BY <1>1, <1>3

(* What a moving job leaves.                                                *)
JobsKept(j, heart) ==
    /\ checkJob' \in [CheckJobs -> CheckRows] /\ ChecksNumbered' /\ ChecksMade' /\ NewSpaced
    /\ MadeChecks' = MadeChecks /\ checkJob'[j].heart = heart
    /\ \A k \in CheckJobs : checkJob'[k].company = checkJob[k].company
    /\ \A k \in CheckJobs \ {j} : checkJob'[k].heart = checkJob[k].heart

LEMMA CheckMoves ==
    ASSUME WatchInv, NEW j \in MadeChecks, NEW status \in ActiveWatchJob \cup EndedCheck,
           NEW heart \in Int, Never <= heart, heart <= watchClock, UNCHANGED watchClock,
           checkJob' = [checkJob EXCEPT ![j] =
               CheckOf(status, checkJob[j].company, checkJob[j].trigger, heart)]
    PROVE  JobsKept(j, heart)
<1>1. j \in CheckJobs /\ checkJob[j] \in CheckRows /\ checkJob[j].status # "absent"
  BY DEF WatchInv, WatchShape, MadeChecks
<1>2. PICK row : row = CheckOf(status, checkJob[j].company, checkJob[j].trigger, heart)
  OBVIOUS
<1>3. /\ row \in CheckRows /\ row.company = checkJob[j].company /\ row.heart = heart
      /\ row.status # "absent"
  BY <1>1, <1>2 DEF CheckOf, CheckRows, ActiveWatchJob, EndedCheck
<1>4. checkJob' = [checkJob EXCEPT ![j] = row]
  BY <1>2
<1>5. /\ checkJob' \in [CheckJobs -> CheckRows] /\ checkJob'[j] = row
      /\ \A k \in CheckJobs \ {j} : checkJob'[k] = checkJob[k]
  BY <1>1, <1>3, <1>4 DEF WatchInv, WatchShape
<1>6. MadeChecks' = MadeChecks
  BY <1>1, <1>3, <1>5 DEF MadeChecks
<1>7. ChecksNumbered'
  BY <1>6 DEF WatchInv, ChecksNumbered
<1>8. ChecksMade'
  BY <1>1, <1>3, <1>5 DEF WatchInv, ChecksMade
<1>9. NewSpaced
  BY <1>1, <1>5 DEF NewSpaced
<1>10. QED
  BY <1>1, <1>3, <1>5, <1>6, <1>7, <1>8, <1>9 DEF JobsKept

(* What a recorded outcome leaves.                                          *)
LEMMA RecordCovers ==
    ASSUME WatchCooldown <= FailureWaitMax, WatchInv, UNCHANGED watchClock,
           NEW key \in KeyRows, key.job \in MadeChecks, key.heart <= watchClock,
           NEW c \in Watched, checkJob[key.job].company = {c},
           NEW good, NEW found, NEW changed,
           schedule' = [schedule EXCEPT ![c] = WithOutcome(schedule[c], key, good, found, changed)],
           MadeChecks' = MadeChecks,
           \A k \in CheckJobs :
               /\ checkJob'[k].company = checkJob[k].company
               /\ checkJob'[k].heart \in Int
               /\ checkJob'[k].heart = checkJob[k].heart
                  \/ (k = key.job /\ checkJob'[k].heart = key.heart)
    PROVE  /\ schedule' = [d \in Watched |-> schedule'[d]]
           /\ \A d \in Watched : IsSchedule(schedule'[d])
           /\ EndsCovered'
<1>1. PICK after : after = WithOutcome(schedule[c], key, good, found, changed)
  OBVIOUS
<1>2. /\ schedule' = [d \in Watched |-> schedule'[d]] /\ schedule'[c] = after
      /\ \A d \in Watched \ {c} : schedule'[d] = schedule[d]
  BY <1>1 DEF WatchInv, WatchShape
<1>3. watchClock \in Nat /\ IsSchedule(schedule[c])
  BY DEF WatchInv, WatchShape
<1>4. \/ after = schedule[c] /\ (~schedule[c].row \/ schedule[c].lastKey = key)
      \/ /\ IsSchedule(after) /\ after.row /\ after.lastKey = key
         /\ after.cooldown >= watchClock + WatchCooldown
  BY <1>1, <1>3, OutcomeCools
<1>5. \A d \in Watched : IsSchedule(schedule'[d])
  BY <1>2, <1>3, <1>4 DEF WatchInv, WatchShape
<1>6. ASSUME NEW d \in Watched \ {c} PROVE CooldownCovers(d)'
  <2>1. CooldownCovers(d)
    BY <1>6 DEF WatchInv, EndsCovered
  <2>2. SUFFICES ASSUME schedule[d].lastKey.job # 0 PROVE CooldownCovers(d)'
    BY <1>2, <1>6 DEF CooldownCovers
  <2>3. schedule[d].lastKey.job \in MadeChecks /\ checkJob[schedule[d].lastKey.job].company = {d}
    BY <2>1, <2>2 DEF CooldownCovers
  <2>4. schedule[d].lastKey.job # key.job /\ schedule[d].lastKey.job \in CheckJobs
    BY <1>6, <2>3 DEF MadeChecks
  <2>5. checkJob'[schedule[d].lastKey.job].heart = checkJob[schedule[d].lastKey.job].heart
    BY <2>4
  <2>6. QED
    BY <1>2, <1>6, <2>1, <2>2, <2>4, <2>5 DEF CooldownCovers
<1>7. CooldownCovers(c)'
  <2>1. key.job \in CheckJobs /\ checkJob[key.job].heart \in Int /\ key.heart \in Int
        /\ checkJob[key.job].heart <= watchClock /\ key.job # 0
    BY DEF MadeChecks, WatchInv, WatchShape, ChecksMade, CheckRows, KeyRows, CheckJobs
  <2>2. checkJob'[key.job].heart <= watchClock /\ checkJob'[key.job].heart \in Int
    BY <2>1
  <2>3. CASE /\ after.row /\ after.lastKey = key /\ IsSchedule(after)
             /\ after.cooldown >= watchClock + WatchCooldown
    <3>1. after.cooldown \in Int
      BY <2>3 DEF IsSchedule
    <3>2. after.cooldown >= key.heart + WatchCooldown
          /\ after.cooldown >= checkJob'[key.job].heart + WatchCooldown
      BY <1>3, <2>1, <2>2, <2>3, <3>1, WatchNumbers
    <3>3. QED
      BY <1>2, <2>1, <2>3, <3>2 DEF CooldownCovers
  <2>4. CASE after = schedule[c] /\ (~schedule[c].row \/ schedule[c].lastKey = key)
    <3>1. CooldownCovers(c)
      BY DEF WatchInv, EndsCovered
    <3>2. CASE schedule[c].lastKey.job = 0
      BY <1>2, <2>4, <3>2 DEF CooldownCovers
    <3>3. CASE schedule[c].lastKey.job # 0
      <4>1. schedule[c].lastKey = key /\ schedule[c].row
        BY <2>4, <3>1, <3>3 DEF CooldownCovers
      <4>2. schedule[c].cooldown >= key.heart + WatchCooldown
            /\ schedule[c].cooldown >= checkJob[key.job].heart + WatchCooldown
        BY <2>1, <3>1, <4>1 DEF CooldownCovers
      <4>3. schedule[c].cooldown >= checkJob'[key.job].heart + WatchCooldown
        BY <2>1, <4>2
      <4>4. QED
        BY <1>2, <2>1, <2>4, <4>1, <4>2, <4>3 DEF CooldownCovers
    <3>4. QED
      BY <3>2, <3>3
  <2>5. QED
    BY <1>4, <2>3, <2>4
<1>8. QED
  BY <1>2, <1>5, <1>6, <1>7 DEF EndsCovered

(* A job that ends, with its outcome recorded.                               *)
LEMMA EndsKeepWatch ==
    ASSUME WatchCooldown <= FailureWaitMax, WatchInv, NEW j \in MadeChecks,
           NEW status \in EndedCheck, NEW heart \in {Never, watchClock}, NEW good, NEW found,
           NEW changed,
           checkJob' = [checkJob EXCEPT ![j].status = status, ![j].heart = heart],
           Record(j, status, heart, good, found, changed), UNCHANGED <<scheduler, watchClock>>
    PROVE  WatchInv' /\ NewSpaced
<1>1. /\ j \in CheckJobs /\ heart \in Int /\ Never <= heart /\ heart <= watchClock
      /\ j \in {0} \cup CheckJobs
  BY DEF MadeChecks, WatchInv, WatchShape, Never
<1>2. PICK row : row = [[checkJob[j] EXCEPT !.status = status] EXCEPT !.heart = heart]
  OBVIOUS
<1>3. checkJob' = [checkJob EXCEPT ![j] = row]
  BY <1>1, <1>2 DEF WatchInv, WatchShape, CheckRows
<1>4. row = CheckOf(status, checkJob[j].company, checkJob[j].trigger, heart)
  BY <1>1, <1>2, EndWritten
<1>5. JobsKept(j, heart)
  BY <1>1, <1>3, <1>4, CheckMoves
<1>6. PICK c \in Watched : checkJob[j].company = {c}
  BY DEF WatchInv, ChecksMade, MadeChecks
<1>7. OwnerOf(j) = c
  BY <1>6, OneOwner
<1>8. PICK key : key = [job |-> j, status |-> status, heart |-> heart]
  OBVIOUS
<1>9. key \in KeyRows /\ key.job = j /\ key.heart = heart
  BY <1>1, <1>8 DEF KeyRows
<1>10. schedule' = [schedule EXCEPT ![c] = WithOutcome(schedule[c], key, good, found, changed)]
  BY <1>7, <1>8 DEF Record
<1>11. \A k \in CheckJobs :
           /\ checkJob'[k].company = checkJob[k].company
           /\ checkJob'[k].heart \in Int
           /\ checkJob'[k].heart = checkJob[k].heart
              \/ (k = key.job /\ checkJob'[k].heart = key.heart)
  BY <1>5, <1>9 DEF JobsKept, CheckRows
<1>12. /\ schedule' = [d \in Watched |-> schedule'[d]]
       /\ \A d \in Watched : IsSchedule(schedule'[d])
       /\ EndsCovered'
  BY <1>1, <1>5, <1>6, <1>9, <1>10, <1>11, RecordCovers DEF JobsKept
<1>13. \A r \in repeats' :
           r.key \in KeyRows /\ r.key.job \in MadeChecks' /\ r.key.heart <= watchClock'
  <2>1. PICK new : new = [key |-> key, good |-> good, found |-> found, changed |-> changed]
    OBVIOUS
  <2>2. repeats' = repeats \cup {new} /\ new.key = key
    BY <1>8, <2>1 DEF Record
  <2>3. QED
    BY <1>1, <1>5, <1>9, <2>2 DEF JobsKept, WatchInv, WatchShape
<1>14. WatchShape'
  BY <1>5, <1>12, <1>13 DEF WatchInv, WatchShape, JobsKept
<1>15. QED
  BY <1>5, <1>12, <1>14 DEF WatchInv, JobsKept

LEMMA MovesKeepWatch ==
    ASSUME WatchInv, NEW j \in MadeChecks, NEW heart,
           JobsKept(j, heart), heart \in {Never, checkJob[j].heart},
           UNCHANGED <<schedule, repeats, scheduler, watchClock>>
    PROVE  WatchInv' /\ NewSpaced
<1>1. WatchShape'
  BY DEF WatchInv, WatchShape, JobsKept, IsSchedule
<1>2. EndsCovered'
  <2>1. SUFFICES ASSUME NEW c \in Watched, schedule[c].lastKey.job # 0 PROVE CooldownCovers(c)'
    BY DEF EndsCovered, CooldownCovers
  <2>2. PICK k : k = schedule[c].lastKey.job
    OBVIOUS
  <2>3. CooldownCovers(c) /\ k \in MadeChecks /\ k \in CheckJobs
    BY <2>1, <2>2 DEF WatchInv, EndsCovered, CooldownCovers, MadeChecks
  <2>4. /\ checkJob[k].heart \in Int /\ checkJob'[k].heart \in Int
        /\ schedule[c].cooldown \in Int
    BY <2>3 DEF WatchInv, WatchShape, JobsKept, CheckRows, IsSchedule
  <2>5. checkJob'[k].heart <= checkJob[k].heart
    BY <2>3, <2>4 DEF WatchInv, ChecksMade, JobsKept, MadeChecks
  <2>6. schedule[c].cooldown >= checkJob'[k].heart + WatchCooldown
    BY <2>1, <2>2, <2>3, <2>4, <2>5, WatchNumbers DEF CooldownCovers
  <2>7. QED
    BY <2>1, <2>2, <2>3, <2>6 DEF CooldownCovers, JobsKept
<1>3. QED
  BY <1>1, <1>2 DEF WatchInv, JobsKept

LEMMA JobStepsKeepWatch ==
    ASSUME WatchCooldown <= FailureWaitMax, WatchInv, NEW j \in CheckJobs,
           CancelQueued(j) \/ TakeCheck(j) \/ PauseCheck(j) \/ EndCheck(j)
    PROVE  WatchInv' /\ NewSpaced
<1>1. j \in MadeChecks /\ checkJob[j] \in CheckRows
  BY DEF CancelQueued, TakeCheck, PauseCheck, EndCheck, MadeChecks, ActiveWatchJob, WatchInv,
         WatchShape
<1>2. /\ checkJob[j].heart \in Int /\ checkJob[j].heart <= watchClock
      /\ Never <= checkJob[j].heart /\ Never \in Int /\ watchClock \in Nat
  BY <1>1 DEF WatchInv, WatchShape, ChecksMade, CheckRows, Never
<1>3. ASSUME NEW status \in ActiveWatchJob \cup EndedCheck,
             checkJob' = [checkJob EXCEPT ![j] = [checkJob[j] EXCEPT !.status = status]],
             UNCHANGED <<schedule, repeats, scheduler, watchClock>>
      PROVE  WatchInv' /\ NewSpaced
  <2>1. PICK row : row = [checkJob[j] EXCEPT !.status = status]
    OBVIOUS
  <2>2. row = CheckOf(status, checkJob[j].company, checkJob[j].trigger, checkJob[j].heart)
    BY <2>1, StatusWritten
  <2>3. JobsKept(j, checkJob[j].heart)
    BY <1>1, <1>2, <1>3, <2>1, <2>2, CheckMoves
  <2>4. QED
    BY <1>1, <1>3, <2>3, MovesKeepWatch
<1>4. CASE CancelQueued(j)
  <2>1. PICK row : row = [[checkJob[j] EXCEPT !.status = "cancelled"] EXCEPT !.heart = Never]
    OBVIOUS
  <2>2. checkJob' = [checkJob EXCEPT ![j] = row]
    BY <1>1, <1>4, <2>1 DEF CancelQueued, WatchInv, WatchShape, CheckRows
  <2>3. row = CheckOf("cancelled", checkJob[j].company, checkJob[j].trigger, Never)
    BY <2>1, EndWritten
  <2>4. "cancelled" \in ActiveWatchJob \cup EndedCheck /\ Never <= watchClock /\ Never <= Never
    BY <1>2 DEF EndedCheck, Never
  <2>5. JobsKept(j, Never)
    BY <1>1, <1>2, <1>4, <2>2, <2>3, <2>4, CheckMoves DEF CancelQueued
  <2>6. QED
    BY <1>1, <1>4, <2>5, MovesKeepWatch DEF CancelQueued
<1>5. CASE PauseCheck(j)
  BY <1>3, <1>5 DEF PauseCheck, ActiveWatchJob
<1>6. CASE TakeCheck(j)
  <2>1. CASE checkJob' = [checkJob EXCEPT ![j].status = "running"] /\ UNCHANGED <<schedule, repeats>>
    BY <1>3, <1>6, <2>1 DEF TakeCheck, ActiveWatchJob
  <2>2. CASE /\ checkJob' = [checkJob EXCEPT ![j].status = "cancelled", ![j].heart = Never]
             /\ Record(j, "cancelled", Never, FALSE, 0, FALSE)
    <3>1. "cancelled" \in EndedCheck /\ UNCHANGED <<scheduler, watchClock>>
      BY <1>6 DEF EndedCheck, TakeCheck
    <3>2. QED
      BY <1>1, <2>2, <3>1, EndsKeepWatch
  <2>3. QED
    BY <1>6, <2>1, <2>2 DEF TakeCheck
<1>7. CASE EndCheck(j)
  <2>1. PICK status \in EndedCheck :
            LET heart == IF status = "cancelled" THEN Never ELSE watchClock IN
            /\ checkJob' = [checkJob EXCEPT ![j].status = status, ![j].heart = heart]
            /\ \/ Record(j, status, heart, FALSE, 0, FALSE)
               \/ \E found \in {0, watchClock}, changed \in BOOLEAN :
                     Record(j, status, heart, TRUE, found, changed)
    BY <1>7 DEF EndCheck
  <2>2. PICK heart \in {Never, watchClock} :
            heart = IF status = "cancelled" THEN Never ELSE watchClock
    OBVIOUS
  <2>3. checkJob' = [checkJob EXCEPT ![j].status = status, ![j].heart = heart]
        /\ UNCHANGED <<scheduler, watchClock>>
    BY <1>7, <2>1, <2>2 DEF EndCheck
  <2>4. PICK good, found, changed : Record(j, status, heart, good, found, changed)
    BY <2>1, <2>2
  <2>5. QED
    BY <1>1, <2>3, <2>4, EndsKeepWatch
<1>8. QED
  BY <1>4, <1>5, <1>6, <1>7

LEMMA RepeatsKeepWatch ==
    ASSUME WatchCooldown <= FailureWaitMax, WatchInv, RepeatRecord
    PROVE  WatchInv' /\ NewSpaced
<1>1. PICK r \in repeats :
          /\ schedule' = [schedule EXCEPT ![OwnerOf(r.key.job)] =
                 WithOutcome(schedule[OwnerOf(r.key.job)], r.key, r.good, r.found, r.changed)]
          /\ repeats' = repeats \ {r}
          /\ UNCHANGED <<followed, checkJob, scheduler, watchClock>>
  BY DEF RepeatRecord
<1>2. PICK key \in KeyRows : key = r.key /\ key.job \in MadeChecks /\ key.heart <= watchClock
  BY DEF WatchInv, WatchShape
<1>3. PICK c \in Watched : checkJob[key.job].company = {c}
  BY <1>2 DEF WatchInv, ChecksMade, MadeChecks
<1>4. schedule' = [schedule EXCEPT ![c] =
                      WithOutcome(schedule[c], key, r.good, r.found, r.changed)]
  BY <1>1, <1>2, <1>3, OneOwner
<1>5. /\ MadeChecks' = MadeChecks /\ UNCHANGED watchClock
      /\ \A k \in CheckJobs :
             /\ checkJob'[k].company = checkJob[k].company
             /\ checkJob'[k].heart \in Int
             /\ checkJob'[k].heart = checkJob[k].heart
                \/ (k = key.job /\ checkJob'[k].heart = key.heart)
  BY <1>1 DEF MadeChecks, WatchInv, WatchShape, CheckRows
<1>10. key.job \in MadeChecks /\ key.heart <= watchClock
  BY <1>2
<1>6. /\ schedule' = [d \in Watched |-> schedule'[d]]
      /\ \A d \in Watched : IsSchedule(schedule'[d])
      /\ EndsCovered'
  BY <1>3, <1>4, <1>5, <1>10, RecordCovers
<1>7. WatchShape'
  BY <1>1, <1>5, <1>6 DEF WatchInv, WatchShape
<1>8. ChecksNumbered' /\ ChecksMade' /\ NewSpaced
  BY <1>1, <1>5 DEF WatchInv, ChecksNumbered, ChecksMade, NewSpaced
<1>9. QED
  BY <1>6, <1>7, <1>8 DEF WatchInv

LEMMA NextIsFree ==
    ASSUME WatchInv
    PROVE  \E n \in Nat : n <= CheckJobMax /\ MadeChecks = 1 .. n /\ NextCheckJob = n + 1
<1>1. PICK n \in Nat : n <= CheckJobMax /\ MadeChecks = 1 .. n
  BY DEF WatchInv, ChecksNumbered
<1>2. Cardinality(1 .. n) = n
  <2>1. Cardinality(1 .. n) = IF 1 > n THEN 0 ELSE n - 1 + 1
    BY FS_Interval
  <2>2. QED
    BY <2>1
<1>3. NextCheckJob = 1 + Cardinality(MadeChecks)
  BY Zenon DEF NextCheckJob, MadeChecks
<1>4. NextCheckJob = 1 + n
  BY <1>1, <1>2, <1>3
<1>5. QED
  BY <1>1, <1>4

(* New jobs: for one company each, not ended yet.                            *)
LEMMA MakingKeepsWatch ==
    ASSUME WatchInv, UNCHANGED <<repeats, watchClock>>,
           scheduler' = [s \in Schedulers |-> scheduler'[s]],
           \A s \in Schedulers :
               /\ scheduler'[s].selected \in SUBSET Watched
               /\ scheduler'[s].now \in Nat /\ scheduler'[s].now <= watchClock,
           schedule' = [c \in Watched |-> schedule'[c]],
           \A c \in Watched :
               /\ IsSchedule(schedule'[c]) /\ schedule'[c].lastKey = schedule[c].lastKey
               /\ schedule'[c].cooldown = schedule[c].cooldown
               /\ schedule[c].row => schedule'[c].row,
           NEW n \in Nat, MadeChecks = 1 .. n, NEW last \in Int, last <= CheckJobMax, last >= n,
           checkJob' \in [CheckJobs -> CheckRows],
           \A j \in CheckJobs \ ((n + 1) .. last) : checkJob'[j] = checkJob[j],
           \A j \in (n + 1) .. last :
               /\ checkJob'[j].status = "queued" /\ checkJob'[j].heart = Never
               /\ \E c \in Watched : checkJob'[j].company = {c}
    PROVE  WatchInv'
<1>1. (n + 1) .. last \in SUBSET CheckJobs
  BY WatchNumbers DEF CheckJobs
<1>2. \A j \in MadeChecks : checkJob'[j] = checkJob[j] /\ j \in CheckJobs
  BY DEF MadeChecks
<1>3. MadeChecks' = 1 .. last
  <2>1. \A j \in CheckJobs : j \in 1 .. n <=> checkJob[j].status # "absent"
    BY DEF MadeChecks
  <2>2. \A j \in CheckJobs : checkJob'[j].status # "absent" <=> j \in 1 .. last
    BY <1>1, <2>1
  <2>3. 1 .. last \in SUBSET CheckJobs
    BY WatchNumbers DEF CheckJobs
  <2>4. QED
    BY <2>2, <2>3 DEF MadeChecks
<1>4. MadeChecks \in SUBSET MadeChecks'
  BY <1>3
<1>5. ChecksNumbered'
  BY <1>3 DEF ChecksNumbered
<1>6. ChecksMade'
  BY DEF WatchInv, WatchShape, ChecksMade, Never
<1>7. WatchShape'
  BY <1>4 DEF WatchInv, WatchShape
<1>8. EndsCovered'
  <2>1. SUFFICES ASSUME NEW c \in Watched, schedule[c].lastKey.job # 0 PROVE CooldownCovers(c)'
    BY DEF EndsCovered, CooldownCovers
  <2>2. CooldownCovers(c)
    BY DEF WatchInv, EndsCovered
  <2>3. PICK k : k = schedule[c].lastKey.job
    OBVIOUS
  <2>4. k \in MadeChecks /\ k \in MadeChecks' /\ checkJob'[k] = checkJob[k]
    BY <1>2, <1>4, <2>1, <2>2, <2>3 DEF CooldownCovers
  <2>5. QED
    BY <2>1, <2>2, <2>3, <2>4 DEF CooldownCovers
<1>9. QED
  BY <1>5, <1>6, <1>7, <1>8 DEF WatchInv

LEMMA ManualKeepsWatch ==
    ASSUME WatchInv, NEW c \in Watched, QueueManual(c)
    PROVE  WatchInv' /\ NewSpaced
<1>1. PICK n \in Nat : n <= CheckJobMax /\ MadeChecks = 1 .. n /\ NextCheckJob = n + 1
  BY NextIsFree
<1>2. PICK row : row = CheckOf("queued", {c}, "manual", Never)
  OBVIOUS
<1>3. /\ row \in CheckRows /\ row.status = "queued" /\ row.heart = Never /\ row.company = {c}
      /\ row.trigger = "manual"
  BY <1>2 DEF CheckOf, CheckRows, ActiveWatchJob, Never
<1>4. [NoCheck EXCEPT !.status = "queued", !.company = {c}] = row
  <2>1. [NoCheck EXCEPT !.status = "queued", !.company = {c}]
          = [[NoCheck EXCEPT !.status = "queued"] EXCEPT !.company = {c}]
    BY DEF NoCheck
  <2>2. [NoCheck EXCEPT !.status = "queued"] = CheckOf("queued", {}, "manual", Never)
    BY DEF NoCheck, CheckOf
  <2>3. [CheckOf("queued", {}, "manual", Never) EXCEPT !.company = {c}] = row
    BY <1>2 DEF CheckOf
  <2>4. QED
    BY <2>1, <2>2, <2>3
<1>5. checkJob' = [checkJob EXCEPT ![n + 1] = row] /\ n + 1 <= CheckJobMax
  BY <1>1, <1>4 DEF QueueManual
<1>6. n + 1 \in CheckJobs
  BY <1>5 DEF CheckJobs
<1>7. /\ checkJob' \in [CheckJobs -> CheckRows] /\ checkJob'[n + 1] = row
      /\ \A j \in CheckJobs \ {n + 1} : checkJob'[j] = checkJob[j]
  BY <1>3, <1>5, <1>6 DEF WatchInv, WatchShape
<1>8. WatchInv'
  <2>1. PICK last \in Int : last = n + 1
    OBVIOUS
  <2>2. (n + 1) .. last = {n + 1} /\ last >= n /\ last <= CheckJobMax
    BY <1>5, <2>1
  <2>3. UNCHANGED <<schedule, repeats, scheduler, watchClock>>
    BY DEF QueueManual
  <2>4. QED
    BY <1>1, <1>3, <1>7, <2>1, <2>2, <2>3, MakingKeepsWatch DEF WatchInv, WatchShape
<1>9. NewSpaced
  BY <1>3, <1>7 DEF NewSpaced
<1>10. QED
  BY <1>8, <1>9

(* As many numbers as companies: each number goes to one company.            *)
LEMMA OneNumberEach ==
    ASSUME NEW new, IsFiniteSet(new), NEW job, NEW n \in Nat,
           {job[c] : c \in new} = (n + 1) .. (n + Cardinality(new))
    PROVE  \A j \in (n + 1) .. (n + Cardinality(new)) :
               \E c \in new : {d \in new : job[d] = j} = {c}
<1>1. PICK m \in Nat : m = Cardinality(new)
  BY FS_CardinalityType
<1>2. PICK T : T = (n + 1) .. (n + m)
  OBVIOUS
<1>3. Cardinality(T) = m
  <2>1. Cardinality((n + 1) .. (n + m)) = IF n + 1 > n + m THEN 0 ELSE (n + m) - (n + 1) + 1
    BY FS_Interval
  <2>2. QED
    BY <1>2, <2>1
<1>4. PICK f : f = [c \in new |-> job[c]]
  OBVIOUS
<1>5. f \in Surjection(new, T)
  BY <1>1, <1>2, <1>4 DEF Surjection
<1>6. f \in Injection(new, T)
  BY <1>1, <1>3, <1>5, FS_Surjection
<1>7. \A c, d \in new : f[c] = f[d] => c = d
  BY <1>6 DEF Injection, IsInjective
<1>8. SUFFICES ASSUME NEW j \in T PROVE \E c \in new : {d \in new : job[d] = j} = {c}
  BY <1>1, <1>2
<1>9. PICK c \in new : job[c] = j
  BY <1>1, <1>2
<1>10. {d \in new : job[d] = j} = {c}
  BY <1>4, <1>7, <1>9
<1>11. QED
  BY <1>10

LEMMA QueueKeepsWatch ==
    ASSUME WatchInv, NEW s \in Schedulers, QueueDue(s)
    PROVE  WatchInv' /\ NewSpaced
<1> DEFINE due == {c \in scheduler[s].selected : StillDue(s, c)}
           new == {c \in due : ActiveJobs(c) = {}}
<1>1. PICK n \in Nat : n <= CheckJobMax /\ MadeChecks = 1 .. n /\ NextCheckJob = n + 1
  BY NextIsFree
<1>2. due \in SUBSET Watched /\ new \in SUBSET due /\ new \in SUBSET Watched
  BY DEF WatchInv, WatchShape
<1>3. IsFiniteSet(new)
  BY <1>2, FS_Subset, WatchNumbers
<1>4. PICK m \in Nat : m = Cardinality(new)
  BY <1>3, FS_CardinalityType
<1>5. NextCheckJob + Cardinality(new) - 1 = n + m
  BY <1>1, <1>4
<1>6. PICK last \in Nat : last = n + m
  OBVIOUS
<1>7. last <= CheckJobMax /\ last >= n
  <2>1. NextCheckJob + Cardinality(new) - 1 <= CheckJobMax
    BY Zenon DEF QueueDue
  <2>2. QED
    BY <1>5, <1>6, <2>1
<1>8. PICK job \in [due -> CheckJobs] :
          /\ {job[c] : c \in new} = (n + 1) .. last
          /\ checkJob' = [j \in CheckJobs |->
                IF j \in (n + 1) .. last
                THEN [NoCheck EXCEPT !.status = "queued", !.trigger = "watchlist",
                                     !.company = {c \in new : job[c] = j}]
                ELSE checkJob[j]]
          /\ schedule' = [c \in Watched |->
                IF c \in due THEN [schedule[c] EXCEPT !.row = TRUE, !.lastJob = job[c]]
                ELSE schedule[c]]
  BY <1>1, <1>5, <1>6 DEF QueueDue
<1>9. /\ scheduler' = [scheduler EXCEPT ![s] = SchedulerFree]
      /\ UNCHANGED <<repeats, watchClock>>
  BY DEF QueueDue
<1> HIDE DEF new
<1>10. \A j \in (n + 1) .. last : \E c \in new : {d \in new : job[d] = j} = {c}
  <2>1. {job[c] : c \in new} = (n + 1) .. (n + Cardinality(new))
    BY <1>4, <1>6, <1>8
  <2>2. QED
    BY <1>3, <1>4, <1>6, <2>1, OneNumberEach
<1>11. ASSUME NEW company
       PROVE  [NoCheck EXCEPT !.status = "queued", !.trigger = "watchlist", !.company = company]
                = CheckOf("queued", company, "watchlist", Never)
  <2>1. [NoCheck EXCEPT !.status = "queued", !.trigger = "watchlist", !.company = company]
          = [[[NoCheck EXCEPT !.status = "queued"] EXCEPT !.trigger = "watchlist"]
                EXCEPT !.company = company]
    BY DEF NoCheck
  <2>2. [NoCheck EXCEPT !.status = "queued"] = CheckOf("queued", {}, "manual", Never)
    BY DEF NoCheck, CheckOf
  <2>3. [CheckOf("queued", {}, "manual", Never) EXCEPT !.trigger = "watchlist"]
          = CheckOf("queued", {}, "watchlist", Never)
    BY DEF CheckOf
  <2>4. [CheckOf("queued", {}, "watchlist", Never) EXCEPT !.company = company]
          = CheckOf("queued", company, "watchlist", Never)
    BY DEF CheckOf
  <2>5. QED
    BY <2>1, <2>2, <2>3, <2>4
<1>12. \A j \in CheckJobs :
           checkJob'[j] = IF j \in (n + 1) .. last
                          THEN CheckOf("queued", {c \in new : job[c] = j}, "watchlist", Never)
                          ELSE checkJob[j]
  BY <1>8, <1>11
<1>13. \A j \in CheckJobs : j \in (n + 1) .. last =>
           /\ checkJob'[j] \in CheckRows
           /\ checkJob'[j].status = "queued" /\ checkJob'[j].heart = Never
           /\ \E c \in new : checkJob'[j].company = {c}
  <2>1. SUFFICES ASSUME NEW j \in CheckJobs, j \in (n + 1) .. last
                 PROVE  /\ checkJob'[j] \in CheckRows
                        /\ checkJob'[j].status = "queued" /\ checkJob'[j].heart = Never
                        /\ \E c \in new : checkJob'[j].company = {c}
    OBVIOUS
  <2>2. PICK c \in new : {d \in new : job[d] = j} = {c}
    BY <1>10, <2>1
  <2>3. checkJob'[j] = CheckOf("queued", {c}, "watchlist", Never) /\ c \in Watched
    BY <1>2, <1>12, <2>1, <2>2
  <2>4. QED
    BY <2>3 DEF CheckOf, CheckRows, ActiveWatchJob, Never
<1>14. checkJob' \in [CheckJobs -> CheckRows]
  BY <1>8, <1>12, <1>13 DEF WatchInv, WatchShape
<1>15. /\ scheduler' = [u \in Schedulers |-> scheduler'[u]]
       /\ \A u \in Schedulers :
             /\ scheduler'[u].selected \in SUBSET Watched
             /\ scheduler'[u].now \in Nat /\ scheduler'[u].now <= watchClock
  <2>1. /\ scheduler = [u \in Schedulers |-> scheduler[u]] /\ watchClock \in Nat
        /\ \A u \in Schedulers :
              /\ scheduler[u].selected \in SUBSET Watched
              /\ scheduler[u].now \in Nat /\ scheduler[u].now <= watchClock
    BY DEF WatchInv, WatchShape
  <2>2. SchedulerFree.selected = {} /\ SchedulerFree.now = 0
    BY DEF SchedulerFree
  <2>3. QED
    BY <1>9, <2>1, <2>2
<1>16. /\ schedule' = [c \in Watched |-> schedule'[c]]
       /\ \A c \in Watched :
             /\ IsSchedule(schedule'[c]) /\ schedule'[c].lastKey = schedule[c].lastKey
             /\ schedule'[c].cooldown = schedule[c].cooldown
             /\ schedule[c].row => schedule'[c].row
  <2>1. ASSUME NEW c \in Watched
        PROVE  /\ IsSchedule(schedule'[c]) /\ schedule'[c].lastKey = schedule[c].lastKey
               /\ schedule'[c].cooldown = schedule[c].cooldown
               /\ schedule[c].row => schedule'[c].row
    <3>1. IsSchedule(schedule[c])
      BY DEF WatchInv, WatchShape
    <3>2. CASE c \in due
      <4>1. schedule'[c] = [schedule[c] EXCEPT !.row = TRUE, !.lastJob = job[c]]
        BY <1>8, <3>2
      <4>2. PICK row \in BOOLEAN : row = TRUE
        OBVIOUS
      <4>3. PICK was, after, number :
                was = schedule[c] /\ after = schedule'[c] /\ number = job[c] /\ IsSchedule(was)
        BY <3>1
      <4>4. after = [[was EXCEPT !.row = row] EXCEPT !.lastJob = number]
        BY <4>1, <4>2, <4>3
      <4>5. [was EXCEPT !.row = row]
              = ScheduleOf(row, was.next, was.cooldown, was.success, was.failures, was.unchanged,
                           was.lastJob, was.lastKey)
        BY <4>3 DEF IsSchedule, ScheduleOf
      <4>6. [ScheduleOf(row, was.next, was.cooldown, was.success, was.failures, was.unchanged,
                        was.lastJob, was.lastKey) EXCEPT !.lastJob = number]
              = ScheduleOf(row, was.next, was.cooldown, was.success, was.failures, was.unchanged,
                           number, was.lastKey)
        BY DEF ScheduleOf
      <4>7. after = ScheduleOf(row, was.next, was.cooldown, was.success, was.failures,
                               was.unchanged, number, was.lastKey)
        BY <4>4, <4>5, <4>6
      <4>8. /\ IsSchedule(after) /\ after.row = row
            /\ after.lastKey = was.lastKey /\ after.cooldown = was.cooldown
        BY <4>3, <4>7 DEF IsSchedule, ScheduleOf
      <4>9. QED
        BY <4>8, <4>2, <4>3
    <3>3. CASE c \notin due
      BY <1>8, <3>1, <3>3
    <3>4. QED
      BY <3>2, <3>3
  <2>2. QED
    BY <1>8, <2>1
<1>17. (n + 1) .. last \in SUBSET CheckJobs
  BY <1>7, WatchNumbers DEF CheckJobs
<1>18. WatchInv'
  <2>1. \A j \in CheckJobs \ ((n + 1) .. last) : checkJob'[j] = checkJob[j]
    BY <1>12
  <2>2. \A j \in (n + 1) .. last :
            /\ checkJob'[j].status = "queued" /\ checkJob'[j].heart = Never
            /\ \E c \in Watched : checkJob'[j].company = {c}
    BY <1>2, <1>13, <1>17
  <2>3. last \in Int
    OBVIOUS
  <2>4. QED
    BY <1>1, <1>7, <1>9, <1>14, <1>15, <1>16, <2>1, <2>2, <2>3, MakingKeepsWatch
<1>19. NewSpaced
  <2>1. SUFFICES ASSUME NEW j \in CheckJobs, NEW k \in CheckJobs,
                        checkJob[j].status = "absent", checkJob'[j].status = "queued",
                        checkJob[k].company = checkJob'[j].company,
                        schedule[OwnerOf(k)].lastKey.job = k
                 PROVE  watchClock >= checkJob[k].heart + WatchCooldown
    BY DEF NewSpaced
  <2>2. PICK c \in new : checkJob'[j].company = {c}
    BY <1>12, <1>13, <2>1
  <2>3. c \in Watched /\ OwnerOf(k) = c /\ k # 0
    BY <1>2, <2>1, <2>2, OneOwner, WatchNumbers DEF CheckJobs
  <2>4. schedule[c].row /\ schedule[c].cooldown >= checkJob[k].heart + WatchCooldown
    BY <2>1, <2>3 DEF WatchInv, EndsCovered, CooldownCovers
  <2>5. c \in due
    BY <1>2, <2>2
  <2>6. schedule[c].cooldown <= scheduler[s].now
    BY <2>4, <2>5 DEF StillDue, DueBy
  <2>7. /\ scheduler[s].now <= watchClock /\ scheduler[s].now \in Nat /\ watchClock \in Nat
        /\ schedule[c].cooldown \in Int /\ checkJob[k].heart \in Int
    BY <2>3 DEF WatchInv, WatchShape, IsSchedule, CheckRows
  <2>8. QED
    BY <2>4, <2>6, <2>7, WatchNumbers
<1>20. QED
  BY <1>18, <1>19

(* The steps that touch neither a job nor a schedule.                         *)
LEMMA OthersKeepWatch ==
    ASSUME WatchInv, UNCHANGED <<schedule, checkJob>>, repeats' \in SUBSET repeats,
           watchClock' \in Nat, watchClock <= watchClock',
           scheduler' = [s \in Schedulers |-> scheduler'[s]],
           \A s \in Schedulers :
               /\ scheduler'[s].selected \in SUBSET Watched
               /\ scheduler'[s].now \in Nat /\ scheduler'[s].now <= watchClock'
    PROVE  WatchInv' /\ NewSpaced
<1>1. watchClock \in Nat
  BY DEF WatchInv, WatchShape
<1>2. MadeChecks' = MadeChecks
  BY DEF MadeChecks
<1>3. \A r \in repeats' :
          r.key \in KeyRows /\ r.key.job \in MadeChecks' /\ r.key.heart <= watchClock'
  BY <1>1, <1>2 DEF WatchInv, WatchShape, KeyRows
<1>4. WatchShape'
  BY <1>3 DEF WatchInv, WatchShape, IsSchedule
<1>5. ChecksNumbered'
  BY <1>2 DEF WatchInv, ChecksNumbered
<1>6. ChecksMade'
  <2>1. SUFFICES ASSUME NEW j \in CheckJobs PROVE checkJob[j].heart <= watchClock'
    BY DEF WatchInv, ChecksMade
  <2>2. checkJob[j].heart <= watchClock /\ checkJob[j].heart \in Int
    BY DEF WatchInv, WatchShape, ChecksMade, CheckRows
  <2>3. QED
    BY <1>1, <2>2
<1>7. EndsCovered'
  <2>1. SUFFICES ASSUME NEW c \in Watched, schedule[c].lastKey.job # 0 PROVE CooldownCovers(c)'
    BY DEF EndsCovered, CooldownCovers
  <2>2. CooldownCovers(c)
    BY DEF WatchInv, EndsCovered
  <2>3. schedule[c].lastKey.heart \in Int
    BY DEF WatchInv, WatchShape, IsSchedule, KeyRows
  <2>4. schedule[c].lastKey.heart <= watchClock'
    BY <1>1, <2>1, <2>2, <2>3 DEF CooldownCovers
  <2>5. QED
    BY <1>2, <2>1, <2>2, <2>4 DEF CooldownCovers
<1>8. NewSpaced
  BY DEF NewSpaced
<1>9. QED
  BY <1>4, <1>5, <1>6, <1>7, <1>8 DEF WatchInv

LEMMA ListKeepsWatch ==
    ASSUME WatchInv, NEW s \in Schedulers, ListDue(s)
    PROVE  WatchInv' /\ NewSpaced
<1>1. PICK chosen \in SUBSET Watched :
          scheduler' = [scheduler EXCEPT ![s] =
              [doing |-> "listed", selected |-> chosen, now |-> watchClock]]
  BY DEF ListDue, kSubset
<1>2. PICK local : local = [doing |-> "listed", selected |-> chosen, now |-> watchClock]
  OBVIOUS
<1>3. watchClock \in Nat
  BY DEF WatchInv, WatchShape
<1>4. /\ scheduler' = [scheduler EXCEPT ![s] = local]
      /\ local.selected = chosen /\ local.now = watchClock
  BY <1>1, <1>2
<1>5. /\ scheduler' = [u \in Schedulers |-> scheduler'[u]]
      /\ \A u \in Schedulers :
            /\ scheduler'[u].selected \in SUBSET Watched
            /\ scheduler'[u].now \in Nat /\ scheduler'[u].now <= watchClock
  BY <1>3, <1>4 DEF WatchInv, WatchShape
<1>6. UNCHANGED <<schedule, checkJob, repeats, watchClock>>
  BY DEF ListDue
<1>7. QED
  BY <1>3, <1>5, <1>6, OthersKeepWatch

LEMMA WatchStarts ==
    ASSUME WatchInit
    PROVE  WatchInv
<1>1. ASSUME NEW c \in Watched
      PROVE  IsSchedule(schedule[c]) /\ schedule[c].lastKey.job = 0
  <2>1. schedule[c] = NoSchedule
    BY DEF WatchInit
  <2>2. NoSchedule = ScheduleOf(FALSE, 0, Never, Never, 0, 0, 0, NoKey)
    BY DEF NoSchedule, ScheduleOf
  <2>3. NoKey \in KeyRows /\ NoKey.job = 0 /\ Never \in Int
    BY DEF NoKey, KeyRows, Never
  <2>4. QED
    BY <2>1, <2>2, <2>3 DEF IsSchedule, ScheduleOf
<1>2. \A j \in CheckJobs :
          checkJob[j] \in CheckRows /\ checkJob[j].status = "absent" /\ checkJob[j].heart = Never
  BY DEF WatchInit, NoCheck, CheckRows, Never
<1>3. checkJob \in [CheckJobs -> CheckRows]
  BY <1>2 DEF WatchInit
<1>4. MadeChecks = {}
  BY <1>2 DEF MadeChecks
<1>5. ChecksNumbered
  <2>1. MadeChecks = 1 .. 0
    BY <1>4
  <2>2. QED
    BY <2>1, WatchNumbers DEF ChecksNumbered
<1>6. ChecksMade
  BY <1>2 DEF ChecksMade, WatchInit, Never
<1>7. EndsCovered
  BY <1>1 DEF EndsCovered, CooldownCovers
<1>8. WatchShape
  BY <1>1, <1>3 DEF WatchShape, WatchInit, SchedulerFree
<1>9. QED
  BY <1>5, <1>6, <1>7, <1>8 DEF WatchInv

LEMMA WatchMoves ==
    ASSUME WatchCooldown <= FailureWaitMax, WatchInv, [WatchNext]_watchVars
    PROVE  WatchInv' /\ NewSpaced
<1> USE DEF watchVars
<1>0. /\ watchClock \in Nat
      /\ scheduler = [s \in Schedulers |-> scheduler[s]]
      /\ \A s \in Schedulers :
            /\ scheduler[s].selected \in SUBSET Watched
            /\ scheduler[s].now \in Nat /\ scheduler[s].now <= watchClock
  BY DEF WatchInv, WatchShape
<1>1. ASSUME NEW c \in Watched, Follow(c) PROVE WatchInv' /\ NewSpaced
  <2>1. UNCHANGED <<schedule, checkJob, repeats, scheduler, watchClock>>
    BY <1>1 DEF Follow
  <2>2. QED
    BY <1>0, <2>1, OthersKeepWatch
<1>2. ASSUME LoseRepeat PROVE WatchInv' /\ NewSpaced
  <2>1. UNCHANGED <<schedule, checkJob, scheduler, watchClock>> /\ repeats' \in SUBSET repeats
    BY <1>2 DEF LoseRepeat
  <2>2. QED
    BY <1>0, <2>1, OthersKeepWatch
<1>3. ASSUME WatchTick PROVE WatchInv' /\ NewSpaced
  <2>1. UNCHANGED <<schedule, checkJob, scheduler, repeats>> /\ watchClock' = watchClock + 1
    BY <1>3 DEF WatchTick
  <2>2. \A s \in Schedulers : scheduler'[s].now <= watchClock'
    BY <1>0, <2>1
  <2>3. QED
    BY <1>0, <2>1, <2>2, OthersKeepWatch
<1>4. ASSUME UNCHANGED watchVars PROVE WatchInv' /\ NewSpaced
  BY <1>0, <1>4, OthersKeepWatch
<1>5. QED
  BY <1>1, <1>2, <1>3, <1>4, ManualKeepsWatch, ListKeepsWatch, QueueKeepsWatch, JobStepsKeepWatch,
     RepeatsKeepWatch DEF WatchNext

(* A new watch check is made only a cooldown after the last recorded end of a *)
(* check of the company, however many schedulers listed it before that end    *)
(* (queue_due_watch_checks looks again under the company lock).  A failure     *)
(* waits at most failure_backoff_max_days: the settings do not compare it with *)
(* cooldown_hours, their defaults (30 days, 24 hours) satisfy the assumption.  *)
THEOREM WatchChecksAreSpaced ==
    ASSUME WatchCooldown <= FailureWaitMax
    PROVE  WatchSpec => ChecksSpaced
<1>1. WatchInit => WatchInv
  BY WatchStarts
<1>2. WatchInv /\ [WatchNext]_watchVars => WatchInv' /\ NewSpaced
  BY WatchMoves
<1>3. QED
  BY <1>1, <1>2, PTL DEF WatchSpec, ChecksSpaced, NewSpaced

-----------------------------------------------------------------------------
(* Matters: what was struck leaves a piece of evidence that says so.          *)

EvidenceRows ==
    [passage : Passages \cup Baselines, version : ReleasedVersions, displayed : BOOLEAN,
     rewritten : BOOLEAN]
MatterOf(kind, status, founder, evidence, observed, ledger) ==
    [kind |-> kind, status |-> status, founder |-> founder, evidence |-> evidence,
     observed |-> observed, ledger |-> ledger]
IsMatter(m) ==
    /\ m = MatterOf(m.kind, m.status, m.founder, m.evidence, m.observed, m.ledger)
    /\ m.evidence \in SUBSET EvidenceRows

MatterShape ==
    /\ \E S : matters \in Seq(S)
    /\ \A e \in DOMAIN matters : IsMatter(matters[e])
    /\ processing \in ReleasedVersions
    /\ recorder = [w \in Recorders |-> recorder[w]]
    /\ \A w \in Recorders : recorder[w].step = "recording" =>
          /\ recorder[w].passage \in Passages /\ recorder[w].version \in ReleasedVersions
          /\ ~recorder[w].known
StruckShows == \A p \in struck : Suppressed(p)

MatterInv == MatterShape /\ StruckShows

LEMMA LedgerKept ==
    ASSUME NEW event, IsMatter(event), NEW p
    PROVE  /\ IsMatter(Ledgered(event, p)) /\ Ledgered(event, p).status = event.status
           /\ Ledgered(event, p).evidence = event.evidence
<1>1. PICK ledger : Materialize(event, p) = [event EXCEPT !.ledger = ledger]
  BY DEF Materialize
<1>2. [event EXCEPT !.ledger = ledger]
        = MatterOf(event.kind, event.status, event.founder, event.evidence, event.observed, ledger)
  BY DEF IsMatter, MatterOf
<1>3. PICK m : m = MatterOf(event.kind, event.status, event.founder, event.evidence,
                            event.observed, ledger)
  OBVIOUS
<1>4. IsMatter(m) /\ m.status = event.status /\ m.evidence = event.evidence
  BY <1>3 DEF IsMatter, MatterOf
<1>5. Ledgered(event, p) = m \/ Ledgered(event, p) = event
  BY <1>1, <1>2, <1>3 DEF Ledgered
<1>6. QED
  BY <1>4, <1>5

(* Evidence that is read again stays as it was displayed.                    *)
LEMMA AttachedEvidence ==
    ASSUME NEW event, IsMatter(event), NEW p \in Passages, NEW v \in ReleasedVersions,
           NEW after, after = Ledgered(Attach(event, p, v), p)
    PROVE  /\ IsMatter(after) /\ after.status = event.status
           /\ \A row \in event.evidence : \E new \in after.evidence :
                  new.passage = row.passage /\ new.displayed = row.displayed
           /\ \A new \in after.evidence : new.passage # p => new \in event.evidence
<1> DEFINE old == {row \in event.evidence : row.passage = p}
           again == {[row EXCEPT !.version = v, !.rewritten = TRUE] : row \in old}
           evidence == (event.evidence \ old) \cup (IF old = {} THEN {Evidence(p, v)} ELSE again)
           observed == event.observed \cup {<<p, v>>}
<1>1. ASSUME NEW row \in old
      PROVE  LET new == [row EXCEPT !.version = v, !.rewritten = TRUE] IN
             new \in EvidenceRows /\ new.passage = p /\ new.displayed = row.displayed
  BY <1>1 DEF IsMatter, EvidenceRows
<1>2. Evidence(p, v) \in EvidenceRows /\ Evidence(p, v).passage = p
  BY DEF Evidence, EvidenceRows
<1>3. /\ evidence \in SUBSET EvidenceRows
      /\ \A row \in event.evidence : \E new \in evidence :
             new.passage = row.passage /\ new.displayed = row.displayed
      /\ \A new \in evidence : new.passage # p => new \in event.evidence
  BY <1>1, <1>2 DEF IsMatter
<1>4. PICK m : m = Attach(event, p, v)
  OBVIOUS
<1>5. m = [[event EXCEPT !.evidence = evidence] EXCEPT !.observed = observed]
  BY <1>4 DEF Attach, IsMatter, MatterOf
<1> HIDE DEF evidence, observed, again, old
<1>6. [event EXCEPT !.evidence = evidence]
        = MatterOf(event.kind, event.status, event.founder, evidence, event.observed, event.ledger)
  BY DEF IsMatter, MatterOf
<1>7. [MatterOf(event.kind, event.status, event.founder, evidence, event.observed, event.ledger)
          EXCEPT !.observed = observed]
        = MatterOf(event.kind, event.status, event.founder, evidence, observed, event.ledger)
  BY DEF MatterOf
<1>8. m = MatterOf(event.kind, event.status, event.founder, evidence, observed, event.ledger)
  BY <1>5, <1>6, <1>7
<1>9. IsMatter(m) /\ m.status = event.status /\ m.evidence = evidence
  BY <1>3, <1>8 DEF IsMatter, MatterOf
<1>10. IsMatter(after) /\ after.status = m.status /\ after.evidence = m.evidence
  BY <1>4, <1>9, LedgerKept
<1>11. QED
  BY <1>3, <1>9, <1>10

(* What a step may do to the events: evidence only of the passage it records,  *)
(* none shown again.                                                        *)
GrowsBy(p) ==
    /\ \A e \in DOMAIN matters :
          /\ e \in DOMAIN matters'
          /\ matters'[e].status = matters[e].status
          /\ \A row \in matters[e].evidence : \E new \in matters'[e].evidence :
                 new.passage = row.passage /\ new.displayed = row.displayed
          /\ \A new \in matters'[e].evidence : new.passage # p => new \in matters[e].evidence
    /\ \A e \in DOMAIN matters' \ DOMAIN matters :
          \A new \in matters'[e].evidence : new.passage = p

LEMMA RecordingGrows ==
    ASSUME MatterInv, NEW w \in Recorders, RecordMatter(w)
    PROVE  /\ GrowsBy(recorder[w].passage)
           /\ \E S : matters' \in Seq(S)
           /\ \A e \in DOMAIN matters' : IsMatter(matters'[e])
<1>1. PICK p \in Passages, v \in ReleasedVersions :
          p = recorder[w].passage /\ v = recorder[w].version
  BY DEF MatterInv, MatterShape, RecordMatter
<1>2. PICK S : matters \in Seq(S)
  BY DEF MatterInv, MatterShape
<1>3. CASE recorder[w].event = 0
  <2>1. PICK new : new = Ledgered(NewMatter("matter", p, v), p)
    OBVIOUS
  <2>2. PICK m : m = NewMatter("matter", p, v)
    OBVIOUS
  <2>3. IsMatter(m) /\ m.evidence = {Evidence(p, v)} /\ Evidence(p, v).passage = p
    <3>1. Evidence(p, v) \in EvidenceRows
      BY DEF Evidence, EvidenceRows
    <3>2. QED
      BY <2>2, <3>1 DEF IsMatter, MatterOf, NewMatter, Evidence
  <2>4. IsMatter(new) /\ \A row \in new.evidence : row.passage = p
    BY <2>1, <2>2, <2>3, LedgerKept
  <2>5. matters' = Append(matters, new)
    BY <1>1, <1>3, <2>1 DEF RecordMatter
  <2>6. matters \in Seq(S \cup {new}) /\ new \in S \cup {new}
    BY <1>2
  <2>7. matters' \in Seq(S \cup {new})
    BY <2>5, <2>6
  <2>8. /\ DOMAIN matters = 1 .. Len(matters) /\ DOMAIN matters' = 1 .. (Len(matters) + 1)
        /\ Len(matters) \in Nat /\ matters'[Len(matters) + 1] = new
        /\ \A e \in 1 .. Len(matters) : matters'[e] = matters[e]
    BY <2>5, <2>6
  <2>9. GrowsBy(p)
    BY <2>4, <2>8 DEF GrowsBy
  <2>10. \A e \in DOMAIN matters' : IsMatter(matters'[e])
    BY <2>4, <2>8 DEF MatterInv, MatterShape
  <2>11. QED
    BY <1>1, <2>7, <2>9, <2>10
<1>4. CASE recorder[w].event # 0
  <2>1. PICK e : e = recorder[w].event
    OBVIOUS
  <2>2. PICK after : after = Ledgered(Attach(matters[e], p, v), p)
    OBVIOUS
  <2>3. matters' = [matters EXCEPT ![e] = after]
    BY <1>1, <1>4, <2>1, <2>2 DEF RecordMatter
  <2>4. matters \in Seq(S \cup {after})
    BY <1>2
  <2>5. matters' \in Seq(S \cup {after}) /\ DOMAIN matters' = DOMAIN matters
        /\ \A f \in DOMAIN matters : matters'[f] = IF f = e THEN after ELSE matters[f]
    <3>1. PICK n \in Nat : n = Len(matters) /\ DOMAIN matters = 1 .. n
                           /\ matters \in [1 .. n -> S \cup {after}]
      BY <2>4
    <3>2. matters' = [f \in 1 .. n |-> IF f = e THEN after ELSE matters[f]]
      BY <2>3, <3>1
    <3>3. matters' \in [1 .. n -> S \cup {after}]
      BY <3>1, <3>2
    <3>4. QED
      BY <3>1, <3>2, <3>3
  <2>6. ASSUME e \in DOMAIN matters
        PROVE  /\ IsMatter(after) /\ after.status = matters[e].status
               /\ \A row \in matters[e].evidence : \E new \in after.evidence :
                      new.passage = row.passage /\ new.displayed = row.displayed
               /\ \A new \in after.evidence : new.passage # p => new \in matters[e].evidence
    <3>1. IsMatter(matters[e])
      BY <2>6 DEF MatterInv, MatterShape
    <3>2. QED
      BY <2>2, <3>1, AttachedEvidence
  <2>7. GrowsBy(p)
    BY <2>5, <2>6 DEF GrowsBy
  <2>8. \A f \in DOMAIN matters' : IsMatter(matters'[f])
    BY <2>5, <2>6 DEF MatterInv, MatterShape
  <2>9. QED
    BY <1>1, <2>5, <2>7, <2>8
<1>5. QED
  BY <1>3, <1>4

RevivesNothing ==
    \A p \in struck : p \in UsablePassages' \ UsablePassages =>
        \E w \in Recorders :
            recorder[w].step = "recording" /\ recorder[w].passage = p /\ ~recorder[w].known

LEMMA RecordKeepsMatters ==
    ASSUME MatterInv, NEW w \in Recorders, RecordMatter(w)
    PROVE  MatterInv' /\ RevivesNothing
<1>1. PICK p : p = recorder[w].passage
  OBVIOUS
<1>2. /\ GrowsBy(p) /\ (\E S : matters' \in Seq(S))
      /\ \A e \in DOMAIN matters' : IsMatter(matters'[e])
  BY <1>1, RecordingGrows
<1>3. MatterShape'
  BY <1>2 DEF MatterInv, MatterShape, RecordMatter, RecorderFree
<1>4. StruckShows'
  BY <1>2 DEF MatterInv, StruckShows, Suppressed, OpenMatter, GrowsBy, RecordMatter
<1>5. RevivesNothing
  <2>1. SUFFICES ASSUME NEW q \in UsablePassages' \ UsablePassages, q # p PROVE FALSE
    BY <1>1 DEF RevivesNothing, MatterInv, MatterShape, RecordMatter
  <2>2. PICK e \in DOMAIN matters' :
            OpenMatter(e)' /\ \E row \in Shown(matters'[e]) : row.passage = q
    BY <2>1 DEF UsablePassages
  <2>3. q \in UsablePassages
    BY <1>2, <2>1, <2>2 DEF UsablePassages, GrowsBy, OpenMatter, Shown
  <2>4. QED
    BY <2>1, <2>3
<1>6. QED
  BY <1>3, <1>4, <1>5 DEF MatterInv

LEMMA ReadKeepsMatters ==
    ASSUME MatterInv, NEW w \in Recorders, NEW p \in Passages, ReadMatters(w, p)
    PROVE  MatterInv' /\ RevivesNothing
<1>1. p \notin struck
  BY DEF MatterInv, StruckShows, ReadMatters
<1>2. PICK event :
          recorder' = [recorder EXCEPT ![w] =
              [step |-> "recording", passage |-> p, version |-> processing,
               known |-> p \in struck, event |-> event]]
  BY DEF ReadMatters
<1>3. /\ recorder'[w].step = "recording" /\ recorder'[w].passage = p
      /\ recorder'[w].version = processing /\ ~recorder'[w].known
      /\ \A x \in Recorders \ {w} : recorder'[x] = recorder[x]
      /\ recorder' = [x \in Recorders |-> recorder'[x]]
  BY <1>1, <1>2 DEF MatterInv, MatterShape
<1>4. UNCHANGED <<matters, processing, struck>>
  BY DEF ReadMatters
<1>5. MatterShape'
  BY <1>3, <1>4 DEF MatterInv, MatterShape, IsMatter
<1>6. StruckShows' /\ RevivesNothing
  BY <1>4 DEF MatterInv, StruckShows, Suppressed, OpenMatter, RevivesNothing, UsablePassages, Shown
<1>7. QED
  BY <1>5, <1>6 DEF MatterInv

LEMMA StrikesKeepMatters ==
    ASSUME MatterInv, NEW e \in DOMAIN matters,
           RetractMatter(e) \/ \E p \in Passages \cup Baselines : StrikeEvidence(e, p)
    PROVE  MatterInv' /\ RevivesNothing
<1>1. PICK S : matters \in Seq(S)
  BY DEF MatterInv, MatterShape
<1>2. PICK m : m = matters[e]
  OBVIOUS
<1>3. IsMatter(m) /\ m = MatterOf(m.kind, m.status, m.founder, m.evidence, m.observed, m.ledger)
  BY <1>2 DEF MatterInv, MatterShape, IsMatter
<1>4. CASE RetractMatter(e)
  <2>1. PICK new : new = MatterOf(m.kind, "retracted", m.founder, m.evidence, m.observed, m.ledger)
    OBVIOUS
  <2>2. matters' = [matters EXCEPT ![e] = new]
    <3>1. [m EXCEPT !.status = "retracted"] = new
      BY <1>3, <2>1 DEF MatterOf
    <3>2. matters' = [matters EXCEPT ![e] = [matters[e] EXCEPT !.status = "retracted"]]
      BY <1>4 DEF RetractMatter
    <3>3. QED
      BY <1>2, <3>1, <3>2, Zenon
  <2>3. IsMatter(new) /\ new.status = "retracted" /\ new.evidence = m.evidence
    BY <1>3, <2>1 DEF IsMatter, MatterOf
  <2>4. matters \in Seq(S \cup {new})
    BY <1>1
  <2>5. /\ matters' \in Seq(S \cup {new}) /\ DOMAIN matters' = DOMAIN matters /\ matters'[e] = new
        /\ \A f \in DOMAIN matters \ {e} : matters'[f] = matters[f]
    BY <2>2, <2>4
  <2>6. MatterShape'
    BY <1>4, <2>3, <2>5 DEF MatterInv, MatterShape, RetractMatter
  <2>7. StruckShows'
    <3>1. ASSUME NEW p \in struck PROVE Suppressed(p)'
      BY <1>2, <2>3, <2>5, <3>1 DEF MatterInv, StruckShows, Suppressed, OpenMatter
    <3>2. ASSUME NEW row \in matters[e].evidence PROVE Suppressed(row.passage)'
      BY <1>2, <2>3, <2>5, <3>2 DEF Suppressed, OpenMatter
    <3>3. QED
      BY <1>4, <3>1, <3>2 DEF StruckShows, RetractMatter
  <2>8. RevivesNothing
    BY <1>2, <2>3, <2>5 DEF RevivesNothing, UsablePassages, OpenMatter, Shown
  <2>9. QED
    BY <2>6, <2>7, <2>8 DEF MatterInv
<1>5. ASSUME NEW p \in Passages \cup Baselines, StrikeEvidence(e, p)
      PROVE  MatterInv' /\ RevivesNothing
  <2>1. PICK row \in Shown(m) :
            /\ row.passage = p
            /\ matters' = [matters EXCEPT ![e].evidence =
                              (@ \ {row}) \cup {[row EXCEPT !.displayed = FALSE]}]
    BY <1>2, <1>5 DEF StrikeEvidence
  <2>2. row \in EvidenceRows /\ row \in m.evidence
    BY <1>3, <2>1 DEF IsMatter, Shown
  <2>3. PICK off : off = [row EXCEPT !.displayed = FALSE]
    OBVIOUS
  <2>4. off \in EvidenceRows /\ off.passage = p /\ ~off.displayed
    BY <2>1, <2>2, <2>3 DEF EvidenceRows
  <2>5. PICK evidence : evidence = (m.evidence \ {row}) \cup {off}
    OBVIOUS
  <2>6. PICK new : new = MatterOf(m.kind, m.status, m.founder, evidence, m.observed, m.ledger)
    OBVIOUS
  <2>7. matters' = [matters EXCEPT ![e] = new]
    <3>1. [m EXCEPT !.evidence = evidence] = new
      BY <1>3, <2>6 DEF MatterOf
    <3>2. matters' = [matters EXCEPT ![e] = [matters[e] EXCEPT !.evidence = evidence]]
      BY <1>1, <1>2, <2>1, <2>3, <2>5
    <3>3. QED
      BY <1>2, <3>1, <3>2, Zenon
  <2>8. IsMatter(new) /\ new.status = m.status /\ new.evidence = evidence
    <3>1. evidence \in SUBSET EvidenceRows
      BY <1>3, <2>4, <2>5 DEF IsMatter
    <3>2. QED
      BY <2>6, <3>1 DEF IsMatter, MatterOf
  <2>9. matters \in Seq(S \cup {new})
    BY <1>1
  <2>10. /\ matters' \in Seq(S \cup {new}) /\ DOMAIN matters' = DOMAIN matters /\ matters'[e] = new
         /\ \A f \in DOMAIN matters \ {e} : matters'[f] = matters[f]
    BY <2>7, <2>9
  <2>11. MatterShape'
    BY <1>5, <2>8, <2>10 DEF MatterInv, MatterShape, StrikeEvidence
  <2>12. \A q \in struck : Suppressed(q)'
    <3>1. SUFFICES ASSUME NEW q \in struck PROVE Suppressed(q)'
      OBVIOUS
    <3>2. PICK f \in DOMAIN matters : \E r \in matters[f].evidence :
              r.passage = q /\ (~r.displayed \/ ~OpenMatter(f))
      BY <3>1 DEF MatterInv, StruckShows, Suppressed
    <3>3. \E r \in matters'[f].evidence : r.passage = q /\ (~r.displayed \/ ~OpenMatter(f)')
      BY <1>2, <2>1, <2>4, <2>5, <2>8, <2>10, <3>2 DEF OpenMatter
    <3>4. QED
      BY <2>10, <3>2, <3>3 DEF Suppressed
  <2>13. Suppressed(p)'
    BY <2>4, <2>5, <2>8, <2>10 DEF Suppressed
  <2>14. StruckShows'
    BY <1>5, <2>12, <2>13 DEF StruckShows, StrikeEvidence
  <2>15. RevivesNothing
    BY <1>2, <2>4, <2>5, <2>8, <2>10 DEF RevivesNothing, UsablePassages, OpenMatter, Shown
  <2>16. QED
    BY <2>11, <2>14, <2>15 DEF MatterInv
<1>6. QED
  BY <1>4, <1>5

LEMMA MatterStep == MatterInv /\ [MatterNext]_matterVars => MatterInv' /\ RevivesNothing
<1> SUFFICES ASSUME MatterInv, [MatterNext]_matterVars PROVE MatterInv' /\ RevivesNothing
  OBVIOUS
<1>1. ASSUME UNCHANGED <<matters, struck>>, MatterShape' PROVE MatterInv' /\ RevivesNothing
  BY <1>1 DEF MatterInv, StruckShows, Suppressed, OpenMatter, RevivesNothing, UsablePassages, Shown
<1>2. ASSUME NEW w \in Recorders, LoseRecording(w) PROVE MatterInv' /\ RevivesNothing
  <2>1. MatterShape'
    BY <1>2 DEF LoseRecording, MatterInv, MatterShape, RecorderFree
  <2>2. QED
    BY <1>1, <1>2, <2>1 DEF LoseRecording
<1>3. CASE Upgrade
  <2>1. MatterShape'
    BY <1>3 DEF Upgrade, MatterInv, MatterShape
  <2>2. QED
    BY <1>1, <1>3, <2>1 DEF Upgrade
<1>4. CASE UNCHANGED matterVars
  <2>1. MatterShape'
    BY <1>4 DEF matterVars, MatterInv, MatterShape
  <2>2. QED
    BY <1>1, <1>4, <2>1 DEF matterVars
<1>5. CASE MatterNext /\ ~Upgrade
  BY <1>2, <1>5, ReadKeepsMatters, RecordKeepsMatters, StrikesKeepMatters DEF MatterNext
<1>6. QED
  BY <1>3, <1>4, <1>5

LEMMA MatterBegins == MatterInit => MatterInv
<1> SUFFICES ASSUME MatterInit PROVE MatterInv
  OBVIOUS
<1>1. PICK order \in [1 .. Cardinality(Baselines) -> Baselines] :
          matters = [i \in DOMAIN order |-> NewMatter("curated", order[i], 1)]
  BY DEF MatterInit
<1>2. ASSUME NEW b \in Baselines PROVE IsMatter(NewMatter("curated", b, 1))
  <2>1. Evidence(b, 1) \in EvidenceRows
    BY DEF Evidence, EvidenceRows, ReleasedVersions
  <2>2. QED
    BY <2>1 DEF NewMatter, IsMatter, MatterOf
<1>3. \A e \in DOMAIN matters : IsMatter(matters[e])
  BY <1>1, <1>2
<1>4. matters \in Seq({NewMatter("curated", b, 1) : b \in Baselines})
  <2>1. Cardinality(Baselines) \in Nat
    BY MatterAssumption, FS_CardinalityType
  <2>2. PICK n \in Nat : n = Cardinality(Baselines)
    BY <2>1
  <2>3. matters \in [1 .. n -> {NewMatter("curated", b, 1) : b \in Baselines}]
    BY <1>1, <2>2
  <2>4. QED
    BY <2>3
<1>5. recorder = [w \in Recorders |-> RecorderFree] /\ processing = 1 /\ struck = {}
  BY DEF MatterInit
<1>6. MatterShape
  BY <1>3, <1>4, <1>5 DEF MatterShape, RecorderFree, ReleasedVersions
<1>7. QED
  BY <1>5, <1>6 DEF MatterInv, StruckShows

(* A withdrawn or retracted passage becomes evidence again only through a       *)
(* session that had read it before, in whatever way later releases read it.     *)
(* (persist_matters looks at the history of the passage under the lock)        *)
THEOREM StruckStaysStruck == MatterSpec => NotRevived
<1>1. MatterInv /\ [MatterNext]_matterVars
        => [\A p \in struck : p \in UsablePassages' \ UsablePassages =>
               \E w \in Recorders :
                   recorder[w].step = "recording" /\ recorder[w].passage = p
                   /\ ~recorder[w].known]_matterVars
  BY MatterStep DEF RevivesNothing
<1>2. QED
  BY <1>1, MatterBegins, MatterStep, PTL DEF MatterSpec, NotRevived

-----------------------------------------------------------------------------
(* Matters: one event, one matter; and a ledger for all that is displayed.    *)

OneMatter(r, s) ==
    ~Incompatible(r.passage, s.passage, Reading(r.passage, r.version),
                  Reading(s.passage, s.version))
Original(m) == \A row \in m.evidence : row.passage = m.founder.passage => ~row.rewritten
Coherent(m) ==
    /\ \A r, s \in m.evidence : r.passage = s.passage => r = s
    /\ \E row \in m.evidence : row.passage = m.founder.passage
    /\ Original(m) => \A r, s \in Shown(m) : r # s => OneMatter(r, s)
Assessed(m) ==
    m.kind = "matter" =>
        \A row \in Shown(m) : \A fact \in ClaimsShown(m) :
            [fact |-> fact, passage |-> row.passage, version |-> row.version] \in m.ledger

(* What a session decided under the lock still holds when it records: others   *)
(* only take evidence away meanwhile.                                       *)
Fits(m, work) ==
    \/ m.founder.passage = work.passage
    \/ \A row \in Shown(m) : row.passage # work.passage => OneMatter(row, work)
SessionFits(w) ==
    recorder[w].step = "recording" =>
        /\ recorder[w].event # 0 =>
              /\ recorder[w].event \in DOMAIN matters
              /\ Fits(matters[recorder[w].event], recorder[w])
        /\ \A x \in Recorders : recorder[x].step = "recording" => x = w

TogetherInv ==
    /\ MatterInv
    /\ \A e \in DOMAIN matters : Coherent(matters[e]) /\ Assessed(matters[e])
    /\ \A w \in Recorders : SessionFits(w)

LEMMA OneMatterBothWays == \A r, s : OneMatter(r, s) <=> OneMatter(s, r)
<1>1. \A l, r, field : SameValue(l, r, field) <=> SameValue(r, l, field)
  BY DEF SameValue
<1>2. \A l, r, field : Differs(l, r, field) <=> Differs(r, l, field)
  BY DEF Differs
<1>3. \A l, r : Denial(l, r) <=> Denial(r, l)
  BY DEF Denial
<1>4. \A p, q, l, r : Identified(p, q, l, r) <=> Identified(q, p, r, l)
  BY <1>1 DEF Identified, SameDetails
<1>5. \A p, q, l, r : Incompatible(p, q, l, r) <=> Incompatible(q, p, r, l)
  BY <1>1, <1>2, <1>3, <1>4 DEF Incompatible
<1>6. QED
  BY <1>5 DEF OneMatter

(* The ledger of an event is written for all its evidence at once.            *)
LEMMA LedgerAssesses ==
    ASSUME NEW event, IsMatter(event), NEW p, NEW after, after = Ledgered(event, p)
    PROVE  /\ after.kind = event.kind /\ after.founder = event.founder
           /\ after.evidence = event.evidence /\ Assessed(after)
<1>1. CASE event.kind # "matter"
  BY <1>1 DEF Ledgered, Assessed
<1>2. CASE event.kind = "matter"
  <2>1. PICK ledger : ledger = {a \in event.ledger : a.fact \notin FactsOf(event)}
                               \cup Assess(FactsOf(event), event.evidence)
    OBVIOUS
  <2>2. after = [event EXCEPT !.ledger = ledger]
    BY <1>2, <2>1 DEF Ledgered, Materialize
  <2>3. after = MatterOf(event.kind, event.status, event.founder, event.evidence, event.observed,
                         ledger)
    BY <2>2 DEF IsMatter, MatterOf
  <2>4. /\ after.kind = event.kind /\ after.founder = event.founder
        /\ after.evidence = event.evidence /\ after.ledger = ledger
    BY <2>3 DEF MatterOf
  <2>5. Shown(after) \subseteq event.evidence /\ ClaimsShown(after) \subseteq FactsOf(event)
    BY <2>4 DEF Shown, ClaimsShown, FactsOf
  <2>6. ASSUME NEW row \in Shown(after), NEW fact \in ClaimsShown(after)
        PROVE  [fact |-> fact, passage |-> row.passage, version |-> row.version] \in ledger
    <3>1. row \in event.evidence /\ fact \in FactsOf(event)
      BY <2>5
    <3>2. QED
      BY <2>1, <3>1 DEF Assess
  <2>7. QED
    BY <2>4, <2>6 DEF Assessed
<1>3. QED
  BY <1>1, <1>2

(* A passage that fits an event leaves it one matter, unless it is the passage *)
(* the event began with: then the event is no longer the original one.        *)
LEMMA AttachedCoherent ==
    ASSUME NEW event, IsMatter(event), Coherent(event), NEW w, w \in Recorders,
           recorder[w].passage \in Passages, recorder[w].version \in ReleasedVersions,
           Fits(event, recorder[w]),
           NEW after, after = Ledgered(Attach(event, recorder[w].passage, recorder[w].version),
                                       recorder[w].passage)
    PROVE  after.kind = event.kind /\ Coherent(after) /\ Assessed(after)
<1>1. PICK p \in Passages, v \in ReleasedVersions :
          p = recorder[w].passage /\ v = recorder[w].version
  OBVIOUS
<1>2. PICK old : old = {row \in event.evidence : row.passage = p}
  OBVIOUS
<1>3. PICK evidence : evidence = (event.evidence \ old) \cup
          (IF old = {} THEN {Evidence(p, v)}
           ELSE {[row EXCEPT !.version = v, !.rewritten = TRUE] : row \in old})
  OBVIOUS
<1>4. PICK observed : observed = event.observed \cup {<<p, v>>}
  OBVIOUS
<1>5. PICK m : m = Attach(event, p, v)
  OBVIOUS
<1>6. m = MatterOf(event.kind, event.status, event.founder, evidence, observed, event.ledger)
  <2>1. m = [[event EXCEPT !.evidence = evidence] EXCEPT !.observed = observed]
    BY <1>2, <1>3, <1>4, <1>5 DEF Attach, IsMatter, MatterOf
  <2>2. [event EXCEPT !.evidence = evidence]
          = MatterOf(event.kind, event.status, event.founder, evidence, event.observed,
                     event.ledger)
    BY DEF IsMatter, MatterOf
  <2>3. [MatterOf(event.kind, event.status, event.founder, evidence, event.observed, event.ledger)
            EXCEPT !.observed = observed]
          = MatterOf(event.kind, event.status, event.founder, evidence, observed, event.ledger)
    BY DEF MatterOf
  <2>4. QED
    BY <2>1, <2>2, <2>3
<1>7. m.kind = event.kind /\ m.founder = event.founder /\ m.evidence = evidence
  BY <1>6 DEF MatterOf
<1>8. \A row \in event.evidence : row \in EvidenceRows
  BY DEF IsMatter
<1>9. ASSUME NEW row \in old
      PROVE  LET new == [row EXCEPT !.version = v, !.rewritten = TRUE] IN
             /\ new \in EvidenceRows /\ new.passage = p /\ new.version = v /\ new.rewritten
  BY <1>2, <1>8, <1>9 DEF EvidenceRows
<1>10. /\ Evidence(p, v) \in EvidenceRows
       /\ Evidence(p, v).passage = p /\ Evidence(p, v).version = v
  BY DEF Evidence, EvidenceRows
<1>11. \A row \in evidence : row.passage # p => row \in event.evidence
  BY <1>3, <1>9, <1>10
<1>12. \A row \in evidence : row.passage = p =>
          /\ row.version = v
          /\ old # {} => row.rewritten
  BY <1>2, <1>3, <1>9, <1>10
<1>13. \A r, s \in evidence : r.passage = p /\ s.passage = p => r = s
  <2>1. \A r, s \in old : r = s
    BY <1>2 DEF Coherent
  <2>2. \A r \in evidence : r.passage = p =>
            IF old = {} THEN r = Evidence(p, v)
            ELSE \E row \in old : r = [row EXCEPT !.version = v, !.rewritten = TRUE]
    BY <1>2, <1>3
  <2>3. QED
    BY <2>1, <2>2
<1>14. IsMatter(m)
  <2>1. evidence \in SUBSET EvidenceRows
    BY <1>3, <1>8, <1>9, <1>10
  <2>2. QED
    BY <1>6, <2>1 DEF IsMatter, MatterOf
<1>15. \A r, s \in evidence : r.passage = s.passage => r = s
  BY <1>11, <1>13 DEF Coherent
<1>16. \E row \in evidence : row.passage = event.founder.passage
  <2>1. PICK row \in event.evidence : row.passage = event.founder.passage
    BY DEF Coherent
  <2>2. CASE row \in old
    <3>1. [row EXCEPT !.version = v, !.rewritten = TRUE] \in evidence
      BY <1>3, <2>2
    <3>2. QED
      BY <1>2, <1>9, <2>1, <2>2, <3>1
  <2>3. CASE row \notin old
    BY <1>3, <2>1, <2>3
  <2>4. QED
    BY <2>2, <2>3
<1>17. ASSUME Original(m), NEW r \in Shown(m), NEW s \in Shown(m), r # s
       PROVE  OneMatter(r, s)
  <2>1. event.founder.passage # p
    <3>1. SUFFICES ASSUME event.founder.passage = p PROVE FALSE
      OBVIOUS
    <3>2. old # {}
      BY <1>2, <3>1 DEF Coherent
    <3>3. QED
      BY <1>7, <1>12, <1>16, <1>17, <3>1, <3>2 DEF Original
  <2>2. Original(event)
    BY <1>2, <1>3, <1>7, <1>17, <2>1 DEF Original
  <2>3. \A t \in Shown(m) : t.passage # p => t \in Shown(event)
    BY <1>7, <1>11 DEF Shown
  <2>4. \A t \in Shown(event) : t.passage # p => OneMatter(t, recorder[w])
    BY <1>1, <2>1 DEF Fits
  <2>5. \A t, u \in Shown(m) : t.passage = p /\ u.passage # p => OneMatter(u, t)
    <3>1. SUFFICES ASSUME NEW t \in Shown(m), NEW u \in Shown(m), t.passage = p, u.passage # p
                   PROVE  OneMatter(u, t)
      OBVIOUS
    <3>2. t.version = v
      BY <1>7, <1>12, <3>1 DEF Shown
    <3>3. OneMatter(u, recorder[w])
      BY <2>3, <2>4, <3>1
    <3>4. QED
      BY <1>1, <3>1, <3>2, <3>3 DEF OneMatter
  <2>6. CASE r.passage # p /\ s.passage # p
    BY <1>17, <2>2, <2>3, <2>6 DEF Coherent
  <2>7. CASE r.passage = p /\ s.passage # p
    BY <2>5, <2>7, OneMatterBothWays
  <2>8. CASE r.passage # p /\ s.passage = p
    BY <2>5, <2>8
  <2>9. CASE r.passage = p /\ s.passage = p
    BY <1>7, <1>13, <1>17, <2>9 DEF Shown
  <2>10. QED
    BY <2>6, <2>7, <2>8, <2>9
<1>18. after = Ledgered(m, p)
  BY <1>1, <1>5
<1>19. /\ after.kind = m.kind /\ after.founder = m.founder /\ after.evidence = m.evidence
       /\ Assessed(after)
  BY <1>14, <1>18, LedgerAssesses
<1>20. Coherent(m)
  BY <1>7, <1>15, <1>16, <1>17 DEF Coherent
<1>21. Coherent(after)
  BY <1>19, <1>20 DEF Coherent, Original, Shown
<1>22. QED
  BY <1>7, <1>19, <1>21

(* An event of one piece of evidence is one matter.                          *)
LEMMA NewCoherent ==
    ASSUME NEW kind, NEW p \in Passages \cup Baselines, NEW v \in ReleasedVersions,
           NEW m, m = NewMatter(kind, p, v)
    PROVE  IsMatter(m) /\ m.kind = kind /\ Coherent(m)
<1>1. /\ Evidence(p, v) \in EvidenceRows /\ Evidence(p, v).passage = p
      /\ m.evidence = {Evidence(p, v)} /\ m.founder.passage = p /\ m.kind = kind
  BY DEF Evidence, EvidenceRows, NewMatter
<1>2. m = MatterOf(m.kind, m.status, m.founder, m.evidence, m.observed, m.ledger)
  BY DEF NewMatter, MatterOf
<1>3. QED
  BY <1>1, <1>2 DEF IsMatter, Coherent, Shown

(* What an event loses leaves the rest as it was.                             *)
Loses(m, new) ==
    /\ new.kind = m.kind /\ new.founder = m.founder /\ new.ledger = m.ledger
    /\ \A row \in m.evidence : \E other \in new.evidence :
          other.passage = row.passage /\ other.rewritten = row.rewritten
    /\ \A r, s \in new.evidence : r.passage = s.passage => r = s
    /\ Shown(new) \subseteq Shown(m)

LEMMA LossesKeep ==
    ASSUME NEW m, NEW new, Coherent(m), Assessed(m), Loses(m, new)
    PROVE  /\ Coherent(new) /\ Assessed(new)
           /\ \A work : Fits(m, work) => Fits(new, work)
<1>1. Original(new) => Original(m)
  BY DEF Original, Loses
<1>2. Coherent(new)
  BY <1>1 DEF Coherent, Loses
<1>3. ClaimsShown(new) \subseteq ClaimsShown(m)
  BY DEF ClaimsShown, Loses
<1>4. Assessed(new)
  BY <1>3 DEF Assessed, Loses
<1>5. QED
  BY <1>2, <1>4 DEF Fits, Loses

LEMMA ReadKeepsTogether ==
    ASSUME TogetherInv, NEW w \in Recorders, NEW p \in Passages, ReadMatters(w, p)
    PROVE  TogetherInv'
<1>1. MatterInv'
  BY ReadKeepsMatters DEF TogetherInv
<1>2. PICK v, joins, same : v = processing /\ joins = Joinable(p, v) /\ same = SameFingerprint(p, v)
  OBVIOUS
<1>3. PICK work :
          /\ work.passage = p /\ work.version = v
          /\ work.event = 0 \/ work.event \in joins \cup same
          /\ recorder' = [recorder EXCEPT ![w] = work]
  <2>1. PICK event : event = IF Cardinality(joins) = 1 THEN CHOOSE e \in joins : TRUE
                             ELSE IF same # {} THEN CHOOSE e \in same : TRUE ELSE 0
    OBVIOUS
  <2>2. event = 0 \/ event \in joins \cup same
    <3>1. Cardinality(joins) = 1 => joins # {}
      BY FS_EmptySet
    <3>2. QED
      BY <2>1, <3>1
  <2>3. recorder' = [recorder EXCEPT ![w] =
            [step |-> "recording", passage |-> p, version |-> v, known |-> p \in struck,
             event |-> IF Cardinality(joins) = 1 THEN CHOOSE e \in joins : TRUE
                       ELSE IF same # {} THEN CHOOSE e \in same : TRUE ELSE 0]]
    BY <1>2 DEF ReadMatters
  <2>4. PICK work : work = [step |-> "recording", passage |-> p, version |-> v,
                            known |-> p \in struck, event |-> event]
    OBVIOUS
  <2>5. recorder' = [recorder EXCEPT ![w] = work]
    BY <2>1, <2>3, <2>4
  <2>6. work.passage = p /\ work.version = v /\ work.event = event
    BY <2>4
  <2>7. QED
    BY <2>2, <2>5, <2>6
<1>4. work.event # 0 => work.event \in DOMAIN matters /\ Fits(matters[work.event], work)
  <2>1. CASE work.event \in joins
    BY <1>2, <1>3, <2>1 DEF Joinable, Fits, OneMatter
  <2>2. CASE work.event \in same
    BY <1>2, <1>3, <2>2 DEF SameFingerprint, Fingerprint, Fits
  <2>3. QED
    BY <1>3, <2>1, <2>2
<1>5. /\ UNCHANGED matters
      /\ recorder'[w] = work
      /\ \A x \in Recorders \ {w} : recorder'[x] = recorder[x]
  BY <1>3 DEF ReadMatters, TogetherInv, MatterInv, MatterShape
<1>6. \A x \in Recorders : recorder[x].step # "recording"
  BY DEF ReadMatters, RecordingFree, RecorderFree
<1>7. \A x \in Recorders : SessionFits(x)'
  BY <1>4, <1>5, <1>6 DEF SessionFits, Fits, OneMatter, Shown, Reading
<1>8. \A e \in DOMAIN matters' : Coherent(matters'[e]) /\ Assessed(matters'[e])
  BY <1>5 DEF TogetherInv
<1>9. QED
  BY <1>1, <1>7, <1>8 DEF TogetherInv, Coherent, Assessed, Original, OneMatter, Shown,
                          ClaimsShown, Reading

LEMMA RecordKeepsTogether ==
    ASSUME TogetherInv, NEW w \in Recorders, RecordMatter(w)
    PROVE  TogetherInv'
<1>1. MatterInv'
  BY RecordKeepsMatters DEF TogetherInv
<1>2. recorder[w].passage \in Passages /\ recorder[w].version \in ReleasedVersions
  BY DEF TogetherInv, MatterInv, MatterShape, RecordMatter
<1>3. PICK S : matters \in Seq(S)
  BY DEF TogetherInv, MatterInv, MatterShape
<1>4. /\ \A x \in Recorders : x # w => recorder[x].step # "recording"
      /\ recorder[w].event # 0 =>
            recorder[w].event \in DOMAIN matters /\ Fits(matters[recorder[w].event], recorder[w])
  BY DEF TogetherInv, SessionFits, RecordMatter
<1>5. \A x \in Recorders : SessionFits(x)'
  <2>1. \A x \in Recorders : recorder'[x].step # "recording"
    BY <1>4 DEF RecordMatter, RecorderFree, TogetherInv, MatterInv, MatterShape
  <2>2. QED
    BY <2>1 DEF SessionFits
<1>6. \A e \in DOMAIN matters' : Coherent(matters'[e]) /\ Assessed(matters'[e])
  <2>1. CASE recorder[w].event = 0
    <3>1. PICK m : m = NewMatter("matter", recorder[w].passage, recorder[w].version)
      OBVIOUS
    <3>2. PICK new : new = Ledgered(m, recorder[w].passage)
      OBVIOUS
    <3>3. IsMatter(m) /\ Coherent(m)
      BY <1>2, <3>1, NewCoherent
    <3>4. new.founder = m.founder /\ new.evidence = m.evidence /\ Assessed(new)
      BY <3>2, <3>3, LedgerAssesses
    <3>5. Coherent(new)
      BY <3>3, <3>4 DEF Coherent, Original, Shown
    <3>6. matters' = Append(matters, new)
      BY <2>1, <3>1, <3>2 DEF RecordMatter
    <3>7. matters \in Seq(S \cup {new}) /\ new \in S \cup {new}
      BY <1>3
    <3>8. \A e \in DOMAIN matters' :
              matters'[e] = new \/ (e \in DOMAIN matters /\ matters'[e] = matters[e])
      BY <3>6, <3>7
    <3>9. QED
      BY <3>4, <3>5, <3>8 DEF TogetherInv
  <2>2. CASE recorder[w].event # 0
    <3>1. PICK f \in DOMAIN matters : f = recorder[w].event /\ Fits(matters[f], recorder[w])
      BY <1>4, <2>2
    <3>2. PICK after :
              after = Ledgered(Attach(matters[f], recorder[w].passage, recorder[w].version),
                               recorder[w].passage)
      OBVIOUS
    <3>3. IsMatter(matters[f]) /\ Coherent(matters[f])
      BY DEF TogetherInv, MatterInv, MatterShape
    <3>4. Coherent(after) /\ Assessed(after)
      BY <1>2, <3>1, <3>2, <3>3, AttachedCoherent
    <3>5. matters' = [matters EXCEPT ![f] = after]
      BY <2>2, <3>1, <3>2 DEF RecordMatter
    <3>6. \A e \in DOMAIN matters' :
              matters'[e] = after \/ (e \in DOMAIN matters /\ matters'[e] = matters[e])
      BY <3>5
    <3>7. QED
      BY <3>4, <3>6 DEF TogetherInv
  <2>3. QED
    BY <2>1, <2>2
<1>7. QED
  BY <1>1, <1>5, <1>6 DEF TogetherInv, Coherent, Assessed, Original, OneMatter, Shown,
                          ClaimsShown, Reading

(* An operator takes evidence out of one event, or retracts it.              *)
LEMMA StrikesKeepTogether ==
    ASSUME TogetherInv, NEW e \in DOMAIN matters,
           RetractMatter(e) \/ \E p \in Passages \cup Baselines : StrikeEvidence(e, p)
    PROVE  TogetherInv'
<1>1. MatterInv'
  BY StrikesKeepMatters DEF TogetherInv
<1>2. PICK m : m = matters[e]
  OBVIOUS
<1>3. /\ m = MatterOf(m.kind, m.status, m.founder, m.evidence, m.observed, m.ledger)
      /\ m.evidence \in SUBSET EvidenceRows /\ Coherent(m) /\ Assessed(m)
  BY <1>2 DEF TogetherInv, MatterInv, MatterShape, IsMatter
<1>4. \E new : matters' = [matters EXCEPT ![e] = new] /\ Loses(m, new)
  <2>1. CASE RetractMatter(e)
    <3>1. PICK new : new = [m EXCEPT !.status = "retracted"]
      OBVIOUS
    <3>2. /\ new.kind = m.kind /\ new.founder = m.founder /\ new.ledger = m.ledger
          /\ new.evidence = m.evidence
      BY <1>3, <3>1 DEF MatterOf
    <3>3. Loses(m, new)
      BY <1>3, <3>2 DEF Loses, Shown, Coherent
    <3>4. matters' = [matters EXCEPT ![e] = [matters[e] EXCEPT !.status = "retracted"]]
      BY <2>1 DEF RetractMatter
    <3>5. matters' = [matters EXCEPT ![e] = new]
      BY <1>2, <3>1, <3>4, Zenon
    <3>6. QED
      BY <3>3, <3>5
  <2>2. ASSUME NEW p \in Passages \cup Baselines, StrikeEvidence(e, p)
        PROVE  \E new : matters' = [matters EXCEPT ![e] = new] /\ Loses(m, new)
    <3>1. PICK row \in Shown(m) :
              matters' = [matters EXCEPT ![e].evidence =
                                (@ \ {row}) \cup {[row EXCEPT !.displayed = FALSE]}]
      BY <1>2, <2>2 DEF StrikeEvidence
    <3>2. PICK off : off = [row EXCEPT !.displayed = FALSE]
      OBVIOUS
    <3>3. row \in EvidenceRows /\ row \in m.evidence
      BY <1>3, <3>1 DEF Shown
    <3>4. /\ off \in EvidenceRows /\ off.passage = row.passage
          /\ off.rewritten = row.rewritten /\ ~off.displayed
      BY <3>2, <3>3 DEF EvidenceRows
    <3>5. PICK evidence : evidence = (m.evidence \ {row}) \cup {off}
      OBVIOUS
    <3>6. PICK new : new = [m EXCEPT !.evidence = evidence]
      OBVIOUS
    <3>7. /\ new.kind = m.kind /\ new.founder = m.founder /\ new.ledger = m.ledger
          /\ new.evidence = evidence
      BY <1>3, <3>6 DEF MatterOf
    <3>8. Shown(new) \subseteq Shown(m)
      BY <3>4, <3>5, <3>7 DEF Shown
    <3>9. \A r, s \in evidence : r.passage = s.passage => r = s
      BY <1>3, <3>3, <3>4, <3>5 DEF Coherent
    <3>10. \A r \in m.evidence : \E other \in evidence :
              other.passage = r.passage /\ other.rewritten = r.rewritten
      BY <3>3, <3>4, <3>5
    <3>11. Loses(m, new)
      BY <3>7, <3>8, <3>9, <3>10 DEF Loses
    <3>12. matters' = [matters EXCEPT ![e] = [matters[e] EXCEPT !.evidence = evidence]]
      BY <1>2, <3>1, <3>2, <3>5 DEF TogetherInv, MatterInv, MatterShape
    <3>13. matters' = [matters EXCEPT ![e] = new]
      BY <1>2, <3>6, <3>12, Zenon
    <3>14. QED
      BY <3>11, <3>13
  <2>3. QED
    BY <2>1, <2>2
<1>5. PICK new : matters' = [matters EXCEPT ![e] = new] /\ Loses(m, new)
  BY <1>4
<1>6. /\ Coherent(new) /\ Assessed(new)
      /\ \A work : Fits(m, work) => Fits(new, work)
  BY <1>3, <1>5, LossesKeep
<1>7. PICK S : matters \in Seq(S)
  BY DEF TogetherInv, MatterInv, MatterShape
<1>8. DOMAIN matters' = DOMAIN matters /\ matters'[e] = new
      /\ \A f \in DOMAIN matters \ {e} : matters'[f] = matters[f]
  BY <1>5, <1>7
<1>9. \A f \in DOMAIN matters' : Coherent(matters'[f]) /\ Assessed(matters'[f])
  BY <1>6, <1>8 DEF TogetherInv
<1>10. UNCHANGED recorder
  BY DEF RetractMatter, StrikeEvidence
<1>11. \A x \in Recorders : SessionFits(x) => SessionFits(x)'
  <2>1. SUFFICES ASSUME NEW x \in Recorders, SessionFits(x), recorder[x].step = "recording",
                        recorder[x].event # 0
                 PROVE  Fits(matters'[recorder[x].event], recorder[x])
    BY <1>8, <1>10 DEF SessionFits, Fits, OneMatter, Shown, Reading
  <2>2. recorder[x].event \in DOMAIN matters /\ Fits(matters[recorder[x].event], recorder[x])
    BY <2>1 DEF SessionFits
  <2>3. QED
    BY <1>2, <1>6, <1>8, <2>2
<1>12. QED
  BY <1>1, <1>9, <1>11 DEF TogetherInv, Coherent, Assessed, Original, OneMatter, Shown,
                          ClaimsShown, Reading

LEMMA TogetherStep == TogetherInv /\ [MatterNext]_matterVars => TogetherInv'
<1> SUFFICES ASSUME TogetherInv, [MatterNext]_matterVars PROVE TogetherInv'
  OBVIOUS
<1>1. MatterInv'
  BY MatterStep DEF TogetherInv
<1>2. ASSUME UNCHANGED matters, \A x \in Recorders : recorder'[x] = recorder[x]
                                    \/ recorder'[x].step # "recording"
      PROVE  TogetherInv'
  BY <1>1, <1>2 DEF TogetherInv, SessionFits, Fits, Coherent, Assessed, Original, OneMatter,
                    Shown, ClaimsShown, Reading
<1>3. ASSUME NEW w \in Recorders, LoseRecording(w) PROVE TogetherInv'
  BY <1>2, <1>3 DEF LoseRecording, RecorderFree, TogetherInv, MatterInv, MatterShape
<1>4. CASE Upgrade
  BY <1>2, <1>4 DEF Upgrade
<1>5. CASE UNCHANGED matterVars
  BY <1>2, <1>5 DEF matterVars
<1>6. CASE MatterNext /\ ~Upgrade
  BY <1>3, <1>6, ReadKeepsTogether, RecordKeepsTogether, StrikesKeepTogether DEF MatterNext
<1>7. QED
  BY <1>4, <1>5, <1>6

LEMMA TogetherBegins == MatterInit => TogetherInv
<1> SUFFICES ASSUME MatterInit PROVE TogetherInv
  OBVIOUS
<1>1. PICK order \in [1 .. Cardinality(Baselines) -> Baselines] :
          matters = [i \in DOMAIN order |-> NewMatter("curated", order[i], 1)]
  BY DEF MatterInit
<1>2. ASSUME NEW e \in DOMAIN matters PROVE Coherent(matters[e]) /\ Assessed(matters[e])
  <2>1. PICK b \in Baselines : matters[e] = NewMatter("curated", b, 1)
    BY <1>1
  <2>2. matters[e].kind = "curated" /\ Coherent(matters[e])
    BY <2>1, NewCoherent DEF ReleasedVersions
  <2>3. QED
    BY <2>2 DEF Assessed
<1>3. \A w \in Recorders : SessionFits(w)
  BY DEF MatterInit, RecorderFree, SessionFits
<1>4. QED
  BY <1>2, <1>3, MatterBegins DEF TogetherInv

(* With a ledger for all of it, an event shows as facts exactly what its        *)
(* displayed evidence says and none of it disputes.                          *)
LEMMA AssessedShows ==
    ASSUME NEW m, m.kind = "matter", Assessed(m)
    PROVE  FactsShown(m) =
               {fact \in ClaimsShown(m) :
                   \A row \in Shown(m) : ~Disputes(Reading(row.passage, row.version), fact)}
<1>1. SUFFICES ASSUME NEW fact \in ClaimsShown(m)
               PROVE  /\ \E a \in Valid(m, fact) : fact \in Claims(Reading(a.passage, a.version))
                      /\ (\A a \in Valid(m, fact) : ~Disputes(Reading(a.passage, a.version), fact))
                         <=> \A row \in Shown(m) :
                                ~Disputes(Reading(row.passage, row.version), fact)
  BY DEF FactsShown
<1>2. ASSUME NEW row \in Shown(m)
      PROVE  \E a \in Valid(m, fact) : a.passage = row.passage /\ a.version = row.version
  <2>1. PICK a : a = [fact |-> fact, passage |-> row.passage, version |-> row.version]
    OBVIOUS
  <2>2. a \in m.ledger /\ a.fact = fact /\ a.passage = row.passage /\ a.version = row.version
    BY <1>2, <2>1 DEF Assessed
  <2>3. QED
    BY <1>2, <2>2 DEF Valid
<1>3. \A a \in Valid(m, fact) : \E row \in Shown(m) :
          row.passage = a.passage /\ row.version = a.version
  BY DEF Valid
<1>4. \E row \in Shown(m) : fact \in Claims(Reading(row.passage, row.version))
  BY DEF ClaimsShown
<1>5. QED
  BY <1>2, <1>3, <1>4

(* However later releases read the passages and whatever is withdrawn between,  *)
(* the displayed evidence of an event is of one matter, as long as the passage  *)
(* it began with has not been read again; and an event found in texts shows the *)
(* facts that its displayed evidence states and none of it disputes.           *)
(* (persist_matters compares with all displayed evidence under the lock;       *)
(* materialize_event_fact_ledger assesses all evidence each time)              *)
THEOREM MattersStayTogether == MatterSpec => []MattersHoldTogether
<1>1. TogetherInv => MattersHoldTogether
  BY AssessedShows DEF TogetherInv, MattersHoldTogether, Coherent, Original, OneMatter
<1>2. QED
  BY <1>1, TogetherBegins, TogetherStep, PTL DEF MatterSpec

-----------------------------------------------------------------------------
(* Financing rounds: who files has read the events under the company's lock,   *)
(* and what it read of them only shrinks until it files.                    *)

KnownKinds == {"curated", "initial", "incomplete", "same_facts"}
ReportRows ==
    [report : Reports \cup CuratedRecords, unclear : BOOLEAN,
     kind : KnownKinds \cup {"conflicting", "correction_candidate"}]
Happenings == [status : {"candidate", "published", "retracted"}, rows : Seq(ReportRows)]
Filings == [step : {"filing"}, event : Nat, row : ReportRows]

FilingShape ==
    /\ lineup \in Seq(Happenings)
    /\ filer \in [Filers -> Filings \cup {FilerFree}]
    /\ \A v, w \in Filers : filer[v] \in Filings /\ filer[w] \in Filings => v = w

FiledOnce ==
    /\ \A e, f \in DOMAIN lineup : \A i \in DOMAIN lineup[e].rows, j \in DOMAIN lineup[f].rows :
          lineup[e].rows[i].report = lineup[f].rows[j].report => e = f /\ i = j
    /\ \A w \in Filers : filer[w] \in Filings => ~FiledReport(filer[w].row.report)

CuratedFirst ==
    /\ \A e \in DOMAIN lineup : \A i \in DOMAIN lineup[e].rows :
          lineup[e].rows[i].kind = "curated" => i = 1
    /\ \A w \in Filers : filer[w] \in Filings => filer[w].row.kind # "curated"

Plain(event) ==
    \A i \in DOMAIN event.rows : event.rows[i].kind \notin {"conflicting", "correction_candidate"}
OneRound(event) ==
    Plain(event) => \A x, y \in RoundsOf(event, KnownKinds) : x = y
SameRoundAs(event, r) ==
    Plain(event) /\ Disclosed(ClaimOf[r].round) =>
        \A x \in RoundsOf(event, KnownKinds) : x = ClaimOf[r].round

RoundsApart ==
    /\ \A e \in DOMAIN lineup : OneRound(lineup[e])
    /\ \A w \in Filers : filer[w] \in Filings /\ filer[w].event # 0 =>
          /\ filer[w].event \in DOMAIN lineup
          /\ SameRoundAs(lineup[filer[w].event], filer[w].row.report)

FilingInv == FilingShape /\ FiledOnce /\ CuratedFirst /\ RoundsApart

LEMMA RoundShown ==
    ASSUME NEW event, NEW kinds, NEW x
    PROVE  x \in RoundsOf(event, kinds) <=>
              /\ x # Undisclosed
              /\ \E i \in DOMAIN event.rows :
                    /\ Displayable(event.rows[i]) /\ event.rows[i].kind \in kinds
                    /\ x = ClaimOf[event.rows[i].report].round
  BY DEF RoundsOf

(* An event that a report belongs to shows no other round than the report's.  *)
LEMMA MatchSameRound ==
    ASSUME FilingInv, NEW r, NEW e \in MatchingEvents(r)
    PROVE  SameRoundAs(lineup[e], r)
<1> DEFINE event == lineup[e]
           claim == ClaimOf[r]
<1> SUFFICES ASSUME Plain(event), Disclosed(claim.round), NEW x \in RoundsOf(event, KnownKinds)
             PROVE  x = claim.round
  BY DEF SameRoundAs
<1>1. e \in DOMAIN lineup /\ OneRound(event) /\ event \in Happenings
  BY DEF MatchingEvents, FilingInv, RoundsApart, FilingShape
<1>2. PICK i \in Anchors(event) :
         LET relation == Association(event.rows[i], Observed(r, "initial", FALSE)) IN
         /\ relation # "unlinked"
         /\ relation = "compatible_evidence" => ~JoinsRounds(event, claim)
  BY DEF MatchingEvents
<1>3. PICK old : old = ClaimOf[event.rows[i].report]
  OBVIOUS
<1>4. i \in DOMAIN event.rows /\ Displayable(event.rows[i]) /\ (IsCurated(event) => i = 1)
  BY <1>2 DEF Anchors
<1>5. event.rows[i].kind \in KnownKinds
  <2>1. event.rows \in Seq(ReportRows)
    BY <1>1 DEF Happenings
  <2>2. event.rows[i] \in ReportRows
    BY <1>4, <2>1
  <2>3. QED
    BY <1>4, <2>2 DEF Plain, ReportRows
<1>6. Observed(r, "initial", FALSE).report = r
  BY DEF Observed
<1>7. ~DiffersFrom(old.round, claim.round)
  BY <1>2, <1>3, <1>6 DEF Association
<1>8. CASE SameRound(old, claim)
  <2>1. Disclosed(old.round) /\ old.round = claim.round
    BY <1>8 DEF SameRound
  <2>2. old.round \in RoundsOf(event, KnownKinds)
    BY <1>3, <1>4, <1>5, <2>1, RoundShown DEF Disclosed
  <2>3. QED
    BY <1>1, <2>1, <2>2 DEF OneRound
<1>9. CASE ~SameRound(old, claim)
  <2>1. ~JoinsRounds(event, claim)
    BY <1>2, <1>3, <1>6, <1>9 DEF Association
  <2>2. \A y \in RoundsOf(event, {"initial", "incomplete", "same_facts"}) : y = claim.round
    BY <2>1 DEF JoinsRounds
  <2>3. PICK k \in DOMAIN event.rows :
            /\ x # Undisclosed /\ Displayable(event.rows[k])
            /\ event.rows[k].kind \in KnownKinds /\ x = ClaimOf[event.rows[k].report].round
    BY RoundShown
  <2>4. CASE event.rows[k].kind = "curated"
    <3>1. k = 1 /\ IsCurated(event)
      BY <1>1, <2>4 DEF FilingInv, CuratedFirst, IsCurated
    <3>2. x = old.round
      BY <1>3, <1>4, <2>3, <3>1
    <3>3. QED
      BY <1>7, <2>3, <3>2 DEF DiffersFrom, Disclosed
  <2>5. CASE event.rows[k].kind # "curated"
    <3>1. event.rows[k].kind \in {"initial", "incomplete", "same_facts"}
      BY <2>3, <2>5 DEF KnownKinds
    <3>2. x \in RoundsOf(event, {"initial", "incomplete", "same_facts"})
      BY <2>3, <3>1, RoundShown
    <3>3. QED
      BY <2>2, <3>2
  <2>6. QED
    BY <2>4, <2>5
<1>10. QED
  BY <1>8, <1>9

(* Rounds that are shown only become fewer when evidence is withdrawn.       *)
LEMMA FewerShown ==
    ASSUME NEW event, NEW kinds, hidden \in SUBSET hidden'
    PROVE  RoundsOf(event, kinds)' \in SUBSET RoundsOf(event, kinds)
  BY DEF RoundsOf, Displayable

LEMMA ReadKeepsFiling ==
    ASSUME FilingInv, NEW w \in Filers, NEW r \in Reports, ReadEvents(w, r)
    PROVE  FilingInv'
<1> DEFINE found == MatchingEvents(r)
           alone == Cardinality(found) # 1
<1>1. lineup' = lineup /\ hidden' = hidden /\ FilingFree /\ ~FiledReport(r)
  BY DEF ReadEvents
<1>2. \A v \in Filers : filer[v] \notin Filings
  BY <1>1 DEF FilingFree, FilerFree, Filings
<1>3. ASSUME ~alone PROVE (CHOOSE e \in found : TRUE) \in found /\ found \in SUBSET DOMAIN lineup
  <2>1. found # {}
    BY <1>3, FS_EmptySet
  <2>2. QED
    BY <2>1 DEF MatchingEvents
<1>4. PICK event \in Nat, row \in ReportRows :
         /\ filer' = [filer EXCEPT ![w] = [step |-> "filing", event |-> event, row |-> row]]
         /\ row.report = r /\ row.kind # "curated"
         /\ event # 0 => event \in found
  <2>1. PICK first : first = CHOOSE e \in found : TRUE
    OBVIOUS
  <2>2. DOMAIN lineup \in SUBSET Nat
    BY DEF FilingInv, FilingShape
  <2>3. KindAlone(r, found # {}) \in {"incomplete", "initial"}
        /\ KindIn(lineup[first], r) \in {"correction_candidate", "conflicting", "same_facts"}
    BY DEF KindAlone, KindIn
  <2>4. Observed(r, KindAlone(r, found # {}), found # {}) \in ReportRows
        /\ Observed(r, KindIn(lineup[first], r), FALSE) \in ReportRows
    BY <2>3 DEF Observed, ReportRows, KnownKinds
  <2>5. PICK row : row = IF alone THEN Observed(r, KindAlone(r, found # {}), found # {})
                         ELSE Observed(r, KindIn(lineup[first], r), FALSE)
    OBVIOUS
  <2>6. row \in ReportRows /\ row.report = r /\ row.kind # "curated"
    BY <2>3, <2>4, <2>5 DEF Observed
  <2>7. PICK event : event = IF alone THEN 0 ELSE first
    OBVIOUS
  <2>8. event \in Nat /\ (event # 0 => event \in found)
    BY <1>3, <2>1, <2>2, <2>7
  <2>9. filer' = [filer EXCEPT ![w] = [step |-> "filing", event |-> event, row |-> row]]
    BY <2>1, <2>5, <2>7 DEF ReadEvents
  <2>10. QED
    BY <2>6, <2>8, <2>9
<1>5. PICK filing : filing = [step |-> "filing", event |-> event, row |-> row]
  OBVIOUS
<1>6. filing \in Filings /\ filing.event = event /\ filing.row = row
  BY <1>5 DEF Filings
<1>7. filer'[w] = filing /\ \A v \in Filers : v # w => filer'[v] = filer[v]
  BY <1>4, <1>5 DEF FilingInv, FilingShape
<1>8. FilingShape'
  BY <1>1, <1>2, <1>4, <1>5, <1>6, <1>7 DEF FilingInv, FilingShape
<1>9. FiledOnce'
  BY <1>1, <1>2, <1>4, <1>6, <1>7 DEF FilingInv, FiledOnce, FiledReport
<1>10. CuratedFirst'
  BY <1>1, <1>2, <1>4, <1>6, <1>7 DEF FilingInv, CuratedFirst
<1>11. RoundsApart'
  <2>1. \A e \in DOMAIN lineup : OneRound(lineup[e])
    BY DEF FilingInv, RoundsApart
  <2>2. event # 0 => event \in DOMAIN lineup /\ SameRoundAs(lineup[event], r)
    BY <1>4, MatchSameRound DEF MatchingEvents
  <2>3. QED
    BY <1>1, <1>2, <1>4, <1>6, <1>7, <2>1, <2>2 DEF RoundsApart, OneRound, SameRoundAs,
       RoundsOf, Displayable
<1>12. QED
  BY <1>8, <1>9, <1>10, <1>11 DEF FilingInv

(* The event that a report joins or begins.                                 *)
LEMMA FileKeepsFiling ==
    ASSUME FilingInv, NEW w \in Filers, FileReport(w)
    PROVE  FilingInv'
<1>a. PICK f : f = filer[w]
  OBVIOUS
<1>b. PICK rows : rows = IF f.event = 0 THEN <<>> ELSE lineup[f.event].rows
  OBVIOUS
<1>c. PICK place : place = IF f.event = 0 THEN Len(lineup) + 1 ELSE f.event
  OBVIOUS
<1>1. /\ FilingShape /\ FiledOnce /\ CuratedFirst /\ RoundsApart
      /\ f \in Filings /\ lineup \in Seq(Happenings) /\ hidden' = hidden
  BY <1>a DEF FilingInv, FilingShape, FileReport, FilerFree
<1>2. f.row \in ReportRows /\ f.event \in Nat /\ f.row.kind # "curated"
      /\ ~FiledReport(f.row.report)
  BY <1>a, <1>1 DEF Filings, FiledOnce, CuratedFirst
<1>3. f.event # 0 => /\ f.event \in DOMAIN lineup
                     /\ SameRoundAs(lineup[f.event], f.row.report)
  BY <1>a, <1>1 DEF RoundsApart
<1>4. rows \in Seq(ReportRows)
  <2>1. ASSUME f.event # 0 PROVE lineup[f.event] \in Happenings
    BY <1>1, <1>3, <2>1
  <2>2. <<>> \in Seq(ReportRows)
    OBVIOUS
  <2>3. QED
    BY <1>b, <2>1, <2>2 DEF Happenings
<1>5. PICK grown : grown = Append(rows, f.row)
  OBVIOUS
<1>6. /\ grown \in Seq(ReportRows) /\ Len(grown) = Len(rows) + 1 /\ Len(rows) \in Nat
      /\ grown[Len(rows) + 1] = f.row /\ \A i \in 1 .. Len(rows) : grown[i] = rows[i]
      /\ DOMAIN grown = 1 .. (Len(rows) + 1) /\ DOMAIN rows = 1 .. Len(rows)
      /\ Len(rows) + 1 \notin 1 .. Len(rows)
  <2>1. rows \in Seq(ReportRows) /\ Len(rows) \in Nat /\ DOMAIN rows = 1 .. Len(rows)
    BY <1>4
  <2>2. grown \in Seq(ReportRows) /\ Len(grown) = Len(rows) + 1
    BY <1>2, <1>4, <1>5
  <2>3. DOMAIN grown = 1 .. (Len(rows) + 1)
    BY <2>2
  <2>4. grown[Len(rows) + 1] = f.row /\ \A i \in 1 .. Len(rows) : grown[i] = rows[i]
    BY <1>2, <1>4, <1>5
  <2>5. QED
    BY <2>1, <2>2, <2>3, <2>4
<1>7. /\ lineup' \in Seq(Happenings) /\ place \in DOMAIN lineup'
      /\ lineup'[place].rows = grown
      /\ \A e \in DOMAIN lineup' : e # place => e \in DOMAIN lineup /\ lineup'[e] = lineup[e]
  <2>1. CASE f.event = 0
    <3>1. PICK event : event = [status |-> "candidate", rows |-> <<f.row>>]
      OBVIOUS
    <3>2. <<f.row>> \in Seq(ReportRows) /\ grown = <<f.row>>
      BY <1>b, <1>2, <1>5, <2>1
    <3>3. event \in Happenings /\ event.rows = grown
      BY <3>1, <3>2 DEF Happenings
    <3>4. lineup' = Append(lineup, event)
      BY <1>a, <2>1, <3>1 DEF FileReport
    <3>5. /\ lineup' \in Seq(Happenings) /\ DOMAIN lineup' = 1 .. (Len(lineup) + 1)
          /\ lineup'[Len(lineup) + 1] = event /\ Len(lineup) \in Nat
          /\ \A e \in 1 .. Len(lineup) : lineup'[e] = lineup[e]
          /\ DOMAIN lineup = 1 .. Len(lineup)
      BY <1>1, <3>3, <3>4
    <3>6. QED
      BY <1>c, <2>1, <3>3, <3>5
  <2>2. CASE f.event # 0
    <3>1. lineup[f.event] \in Happenings /\ f.event \in DOMAIN lineup
      BY <1>1, <1>3, <2>2
    <3>2. PICK event : event = [lineup[f.event] EXCEPT !.rows = grown]
      OBVIOUS
    <3>3. event \in Happenings /\ event.rows = grown
      BY <1>6, <3>1, <3>2 DEF Happenings
    <3>4. lineup' = [lineup EXCEPT ![f.event] = event]
      BY <1>a, <1>b, <1>5, <2>2, <3>2 DEF FileReport
    <3>5. /\ lineup' \in Seq(Happenings) /\ DOMAIN lineup' = DOMAIN lineup
          /\ lineup'[f.event] = event
          /\ \A e \in DOMAIN lineup : e # f.event => lineup'[e] = lineup[e]
      BY <1>1, <3>1, <3>3, <3>4
    <3>6. QED
      BY <1>c, <2>2, <3>1, <3>3, <3>5
  <2>3. QED
    BY <2>1, <2>2
<1>8. \A v \in Filers : filer'[v] \notin Filings
  <2>1. filer' = [filer EXCEPT ![w] = FilerFree] /\ FilerFree \notin Filings
    BY DEF FileReport, FilerFree, Filings
  <2>2. QED
    BY <1>a, <1>1, <2>1 DEF FilingShape
<1>9. FilingShape'
  <2>1. filer' = [filer EXCEPT ![w] = FilerFree]
    BY DEF FileReport
  <2>2. filer' \in [Filers -> Filings \cup {FilerFree}]
    BY <1>1, <2>1 DEF FilingShape
  <2>3. \A v, u \in Filers : filer'[v] \in Filings /\ filer'[u] \in Filings => v = u
    BY <1>8
  <2>4. lineup' \in Seq(Happenings)
    BY <1>7
  <2>5. QED
    BY <2>2, <2>3, <2>4 DEF FilingShape
<1>10. \A e \in DOMAIN lineup' : \A i \in DOMAIN lineup'[e].rows :
          \/ e = place /\ i = Len(rows) + 1 /\ lineup'[e].rows[i] = f.row
          \/ /\ e \in DOMAIN lineup /\ i \in DOMAIN lineup[e].rows
             /\ lineup'[e].rows[i] = lineup[e].rows[i]
  <2>1. SUFFICES ASSUME NEW i \in DOMAIN grown, i # Len(rows) + 1
                 PROVE  /\ place \in DOMAIN lineup /\ i \in DOMAIN lineup[place].rows
                        /\ grown[i] = lineup[place].rows[i]
    BY <1>6, <1>7
  <2>2. i \in 1 .. Len(rows) /\ grown[i] = rows[i]
    BY <1>6, <2>1
  <2>3. f.event # 0
    BY <1>b, <2>2
  <2>4. place = f.event /\ rows = lineup[place].rows
    BY <1>b, <1>c, <2>3
  <2>5. QED
    BY <1>3, <1>6, <2>2, <2>3, <2>4
<1>11. FiledOnce'
  <2>1. \A e \in DOMAIN lineup : \A i \in DOMAIN lineup[e].rows :
            lineup[e].rows[i].report # f.row.report
    BY <1>2 DEF FiledReport
  <2>2. QED
    BY <1>1, <1>8, <1>10, <2>1 DEF FiledOnce
<1>12. CuratedFirst'
  BY <1>1, <1>2, <1>8, <1>10 DEF CuratedFirst
<1>13. ASSUME Plain(lineup[place])', NEW x \in RoundsOf(lineup[place], KnownKinds)',
              NEW y \in RoundsOf(lineup[place], KnownKinds)'
       PROVE  x = y
  <2> DEFINE new == ClaimOf[f.row.report].round
  <2>1. ASSUME NEW z \in RoundsOf(lineup[place], KnownKinds)'
        PROVE  /\ z # Undisclosed
               /\ z = new \/ (f.event # 0 /\ z \in RoundsOf(lineup[f.event], KnownKinds))
    <3>1. PICK i \in DOMAIN grown :
              /\ z # Undisclosed /\ Displayable(grown[i])
              /\ grown[i].kind \in KnownKinds /\ z = ClaimOf[grown[i].report].round
      BY <1>1, <1>7, <2>1 DEF RoundsOf, Displayable
    <3>2. CASE i = Len(rows) + 1
      BY <1>6, <3>1, <3>2
    <3>3. CASE i # Len(rows) + 1
      <4>1. i \in 1 .. Len(rows) /\ grown[i] = rows[i]
        BY <1>6, <3>3
      <4>2. f.event # 0 /\ rows = lineup[f.event].rows
        BY <1>b, <4>1
      <4>3. i \in DOMAIN lineup[f.event].rows /\ grown[i] = lineup[f.event].rows[i]
        BY <1>6, <4>1, <4>2
      <4>4. z \in RoundsOf(lineup[f.event], KnownKinds)
        BY <3>1, <4>3, RoundShown
      <4>5. QED
        BY <3>1, <4>2, <4>4
    <3>4. QED
      BY <3>2, <3>3
  <2>2. ASSUME f.event # 0 PROVE Plain(lineup[f.event])
    <3>1. SUFFICES ASSUME NEW i \in DOMAIN lineup[f.event].rows
                   PROVE  lineup[f.event].rows[i].kind \notin {"conflicting", "correction_candidate"}
      BY DEF Plain
    <3>2. i \in 1 .. Len(rows) /\ rows[i] = lineup[f.event].rows[i]
      BY <1>b, <1>6, <2>2, <3>1
    <3>3. i \in DOMAIN grown /\ grown[i] = rows[i]
      BY <1>6, <3>2
    <3>4. QED
      BY <1>7, <1>13, <3>2, <3>3 DEF Plain
  <2>3. f.event # 0 => OneRound(lineup[f.event])
    BY <1>1, <1>3 DEF RoundsApart
  <2>4. QED
    BY <1>3, <1>13, <2>1, <2>2, <2>3 DEF OneRound, SameRoundAs, Disclosed
<1>14. RoundsApart'
  <2>1. ASSUME NEW e \in DOMAIN lineup', e # place PROVE OneRound(lineup[e])'
    <3>1. e \in DOMAIN lineup /\ lineup'[e] = lineup[e] /\ OneRound(lineup[e])
      BY <1>1, <1>7, <2>1 DEF RoundsApart
    <3>2. RoundsOf(lineup[e], KnownKinds)' = RoundsOf(lineup[e], KnownKinds)
          /\ Plain(lineup[e])' = Plain(lineup[e])
      BY <1>1, <3>1 DEF RoundsOf, Displayable, Plain
    <3>3. QED
      BY <3>1, <3>2 DEF OneRound
  <2>2. OneRound(lineup[place])'
    BY <1>13 DEF OneRound
  <2>3. \A e \in DOMAIN lineup' : OneRound(lineup[e])'
    BY <2>1, <2>2
  <2>4. QED
    BY <1>8, <2>3 DEF RoundsApart
<1>15. QED
  BY <1>9, <1>11, <1>12, <1>14 DEF FilingInv

(* Steps that file nothing: evidence is withdrawn, an event is retracted, a    *)
(* transaction is lost.                                                     *)
LEMMA WithdrawKeepsFiling ==
    ASSUME FilingInv, hidden \in SUBSET hidden', lineup' \in Seq(Happenings),
           DOMAIN lineup' = DOMAIN lineup,
           \A e \in DOMAIN lineup : lineup'[e].rows = lineup[e].rows,
           filer' \in [Filers -> Filings \cup {FilerFree}],
           \A v \in Filers : filer'[v] \in {filer[v], FilerFree}
    PROVE  FilingInv'
<1>1. FilingShape /\ FiledOnce /\ CuratedFirst /\ RoundsApart
  BY DEF FilingInv
<1>2. \A v \in Filers : filer'[v] \in Filings => filer'[v] = filer[v]
  BY DEF FilerFree, Filings
<1>3. FilingShape'
  BY <1>1, <1>2 DEF FilingShape
<1>4. FiledOnce' /\ CuratedFirst'
  BY <1>1, <1>2 DEF FiledOnce, CuratedFirst, FiledReport
<1>5. ASSUME NEW e \in DOMAIN lineup
      PROVE  /\ Plain(lineup[e])' <=> Plain(lineup[e])
             /\ RoundsOf(lineup[e], KnownKinds)' \in SUBSET RoundsOf(lineup[e], KnownKinds)
  <2>1. lineup'[e].rows = lineup[e].rows
    OBVIOUS
  <2>2. QED
    BY <2>1 DEF RoundsOf, Displayable, Plain
<1>6. RoundsApart'
  <2>1. \A e \in DOMAIN lineup' : OneRound(lineup[e])'
    BY <1>1, <1>5 DEF RoundsApart, OneRound
  <2>2. ASSUME NEW e \in DOMAIN lineup, NEW r, SameRoundAs(lineup[e], r)
        PROVE  SameRoundAs(lineup[e], r)'
    BY <1>5, <2>2 DEF SameRoundAs
  <2>3. ASSUME NEW v \in Filers, filer'[v] \in Filings, filer'[v].event # 0
        PROVE  /\ filer'[v].event \in DOMAIN lineup'
               /\ SameRoundAs(lineup[filer[v].event], filer[v].row.report)'
    <3>1. PICK e, r : e = filer[v].event /\ r = filer[v].row.report
      OBVIOUS
    <3>2. filer'[v] = filer[v] /\ filer[v] \in Filings /\ e # 0
      BY <1>2, <2>3, <3>1
    <3>3. e \in DOMAIN lineup /\ SameRoundAs(lineup[e], r)
      BY <1>1, <3>1, <3>2 DEF RoundsApart
    <3>4. SameRoundAs(lineup[e], r)'
      BY <2>2, <3>3
    <3>5. filer'[v].event = e /\ filer'[v].row.report = r
      BY <3>1, <3>2
    <3>6. QED
      BY <3>3, <3>4, <3>5
  <2>4. QED
    BY <2>1, <2>3 DEF RoundsApart
<1>7. QED
  BY <1>3, <1>4, <1>6 DEF FilingInv

LEMMA FilingStep ==
    FilingInv /\ [FinancingNext]_financingVars => FilingInv'
<1> SUFFICES ASSUME FilingInv, [FinancingNext]_financingVars PROVE FilingInv'
  OBVIOUS
<1>1. FilingShape
  BY DEF FilingInv
<1>2. CASE \E w \in Filers, r \in Reports : ReadEvents(w, r)
  BY <1>2, ReadKeepsFiling
<1>3. CASE \E w \in Filers : FileReport(w)
  BY <1>3, FileKeepsFiling
<1>4. CASE \E w \in Filers : LoseFiling(w)
  <2>1. lineup' = lineup /\ hidden' = hidden
    BY <1>4 DEF LoseFiling
  <2>2. /\ filer' \in [Filers -> Filings \cup {FilerFree}]
        /\ \A v \in Filers : filer'[v] \in {filer[v], FilerFree}
    BY <1>1, <1>4 DEF LoseFiling, FilingShape
  <2>3. QED
    BY <1>1, <2>1, <2>2, WithdrawKeepsFiling DEF FilingShape
<1>5. CASE \E e \in DOMAIN lineup : RetractFinancing(e)
  <2>1. PICK e \in DOMAIN lineup : RetractFinancing(e)
    BY <1>5
  <2>2. PICK event : event = [lineup[e] EXCEPT !.status = "retracted"]
    OBVIOUS
  <2>3. lineup[e] \in Happenings /\ lineup \in Seq(Happenings)
    BY <1>1, <2>1 DEF FilingShape
  <2>4. event \in Happenings /\ event.rows = lineup[e].rows
    BY <2>2, <2>3 DEF Happenings
  <2>5. lineup' = [lineup EXCEPT ![e] = event]
    BY <2>1, <2>2 DEF RetractFinancing
  <2>6. /\ lineup' \in Seq(Happenings) /\ DOMAIN lineup' = DOMAIN lineup
        /\ \A f \in DOMAIN lineup : lineup'[f].rows = lineup[f].rows
    BY <2>1, <2>3, <2>4, <2>5
  <2>7. hidden' = hidden /\ filer' = filer
    BY <2>1 DEF RetractFinancing
  <2>8. QED
    BY <1>1, <2>6, <2>7, WithdrawKeepsFiling DEF FilingShape
<1>6. CASE \E r \in Reports \cup CuratedRecords : HideReport(r)
  <2>1. lineup' = lineup /\ filer' = filer /\ hidden \in SUBSET hidden'
    BY <1>6 DEF HideReport
  <2>2. QED
    BY <1>1, <2>1, WithdrawKeepsFiling DEF FilingShape
<1>7. CASE UNCHANGED financingVars
  <2>1. lineup' = lineup /\ filer' = filer /\ hidden \in SUBSET hidden'
    BY <1>7 DEF financingVars
  <2>2. QED
    BY <1>1, <2>1, WithdrawKeepsFiling DEF FilingShape
<1>8. QED
  BY <1>2, <1>3, <1>4, <1>5, <1>6, <1>7 DEF FinancingNext

LEMMA FilingBegins == FinancingInit => FilingInv
<1> SUFFICES ASSUME FinancingInit PROVE FilingInv
  OBVIOUS
<1>1. PICK order \in [1 .. Cardinality(CuratedRecords) -> CuratedRecords] :
          /\ \A c \in CuratedRecords : \E i \in DOMAIN order : order[i] = c
          /\ lineup = [i \in DOMAIN order |->
                [status |-> "published", rows |-> <<Observed(order[i], "curated", FALSE)>>]]
  BY DEF FinancingInit
<1>2. PICK n \in Nat : n = Cardinality(CuratedRecords)
  BY FinancingAssumption, FS_CardinalityType
<1>3. \A i, j \in 1 .. n : order[i] = order[j] => i = j
  <2>1. order \in Surjection(1 .. n, CuratedRecords)
    BY <1>1, <1>2 DEF Surjection
  <2>2. IsFiniteSet(1 .. n) /\ Cardinality(1 .. n) = n
    <3>1. IsFiniteSet(1 .. n) /\ Cardinality(1 .. n) = IF 1 > n THEN 0 ELSE n - 1 + 1
      BY FS_Interval
    <3>2. QED
      BY <3>1
  <2>3. order \in Injection(1 .. n, CuratedRecords)
    BY <1>2, <2>1, <2>2, FS_Surjection
  <2>4. QED
    BY <2>3 DEF Injection, IsInjective
<1>4. DOMAIN lineup = 1 .. n /\ DOMAIN order = 1 .. n
  BY <1>1, <1>2
<1>5. ASSUME NEW i \in 1 .. n
      PROVE  /\ lineup[i] \in Happenings /\ Len(lineup[i].rows) = 1
             /\ lineup[i].rows[1].report = order[i] /\ DOMAIN lineup[i].rows = {1}
  <2>1. PICK row : row = Observed(order[i], "curated", FALSE)
    OBVIOUS
  <2>2. row \in ReportRows /\ row.report = order[i]
    BY <1>1, <1>2, <2>1 DEF Observed, ReportRows, KnownKinds
  <2>3. lineup[i] = [status |-> "published", rows |-> <<row>>]
    BY <1>1, <1>4, <2>1
  <2>4. <<row>> \in Seq(ReportRows) /\ Len(<<row>>) = 1 /\ <<row>>[1] = row /\ DOMAIN <<row>> = {1}
    BY <2>2
  <2>5. QED
    BY <2>2, <2>3, <2>4 DEF Happenings
<1>6. lineup \in Seq(Happenings)
  <2>1. lineup = [i \in 1 .. n |-> lineup[i]]
    BY <1>1, <1>4
  <2>2. QED
    BY <1>5, <2>1
<1>7. \A w \in Filers : filer[w] = FilerFree /\ FilerFree \notin Filings
  BY DEF FinancingInit, FilerFree, Filings
<1>8. FilingShape
  <2>1. filer \in [Filers -> Filings \cup {FilerFree}]
    BY DEF FinancingInit
  <2>2. QED
    BY <1>6, <1>7, <2>1 DEF FilingShape
<1>9. FiledOnce /\ CuratedFirst
  BY <1>3, <1>4, <1>5, <1>7 DEF FiledOnce, CuratedFirst
<1>10. RoundsApart
  <2>1. ASSUME NEW e \in DOMAIN lineup, NEW x \in RoundsOf(lineup[e], KnownKinds)
        PROVE  x = ClaimOf[lineup[e].rows[1].report].round
    BY <1>4, <1>5, <2>1, RoundShown
  <2>2. QED
    BY <1>7, <2>1 DEF RoundsApart, OneRound
<1>11. QED
  BY <1>8, <1>9, <1>10 DEF FilingInv

(* A report is evidence of one event only, and an event that never had a        *)
(* conflicting or correcting report shows one known round, whatever was          *)
(* withdrawn while a report waited to be filed.  (persist_financing_document:    *)
(* the lock of the company, one observation per document, the check against     *)
(* bridges)                                                                 *)
THEOREM OneRoundPerEvent == FinancingSpec => []OneRoundEach
<1>1. ASSUME FilingInv PROVE OneRoundEach
  <2>1. ASSUME NEW e \in DOMAIN lineup, Plain(lineup[e])
        PROVE  Cardinality(RoundsOf(lineup[e], KnownKinds)) <= 1
    <3>1. PICK rounds : rounds = RoundsOf(lineup[e], KnownKinds)
      OBVIOUS
    <3>2. \A x, y \in rounds : x = y
      BY <1>1, <2>1, <3>1 DEF FilingInv, RoundsApart, OneRound
    <3>3. CASE rounds = {}
      BY <3>1, <3>3, FS_EmptySet
    <3>4. CASE \E x : rounds = {x}
      BY <3>1, <3>4, FS_Singleton
    <3>5. QED
      BY <3>2, <3>3, <3>4
  <2>2. QED
    BY <1>1, <2>1 DEF OneRoundEach, FilingInv, FiledOnce, Plain, KnownKinds
<1>2. QED
  BY <1>1, FilingBegins, FilingStep, PTL DEF FinancingSpec

=============================================================================
