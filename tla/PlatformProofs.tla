--------------------------- MODULE PlatformProofs ---------------------------
(* What the platform publishes, serves and releases: the properties of        *)
(* PersonalContent, ReleasePointer, BusinessCalls, CuratedImport, Publication, *)
(* ReleaseOps and BusinessOAuth, for any number of records, sessions, calls    *)
(* and operators; and what it asks of the origins of sources (SourceFetch).   *)
EXTENDS PersonalContent, ReleasePointer, BusinessCalls, CuratedImport, Publication,
        ReleaseOps, BusinessOAuth, SourceFetch, Integers, FiniteSetTheorems, TLAPS

-----------------------------------------------------------------------------
(* PersonalContent: whatever a page holds or a receipt says was shown.       *)

ItemRows == [status : {"absent", "published", "retracted"},
             version : ItemVersions, confirmed : BOOLEAN, allowed : BOOLEAN]

ContentTyped ==
    /\ item \in [Items -> ItemRows]
    /\ tab \in [Tabs -> [Items -> ItemVersions]]
    /\ receipt \in [Items -> ItemVersions]
    /\ shownEver \in [Items -> SUBSET ItemVersions]
    /\ baseline \in [Items -> SUBSET ItemVersions]
    /\ passedOver \in [Items -> SUBSET ItemVersions]

PublishedVersions == \A e \in Items : OnPage(e) => item[e].version # 0
TabsWereShown == \A t \in Tabs, e \in Items : tab[t][e] # 0 => tab[t][e] \in shownEver[e]
ReceiptsWereShown ==
    \A e \in Items :
        receipt[e] # 0 => receipt[e] \in shownEver[e] \cup baseline[e] \cup passedOver[e]

ContentInv == ContentTyped /\ PublishedVersions /\ TabsWereShown /\ ReceiptsWereShown

ItemOf(status, version, confirmed, allowed) ==
    [status |-> status, version |-> version, confirmed |-> confirmed, allowed |-> allowed]

LEMMA ContentBegins == ContentInit => ContentInv
<1>1. SUFFICES ASSUME ContentInit PROVE ContentInv
  OBVIOUS
<1>2. ItemOf("absent", 0, FALSE, TRUE) \in ItemRows
  BY ContentAssumption DEF ItemRows, ItemOf, ItemVersions
<1>3. item = [e \in Items |-> ItemOf("absent", 0, FALSE, TRUE)]
  BY <1>1 DEF ContentInit, ItemOf
<1>4. ContentTyped
  <2>1. item \in [Items -> ItemRows]
    BY <1>2, <1>3
  <2>2. 0 \in ItemVersions
    BY ContentAssumption DEF ItemVersions
  <2>3. QED
    BY <1>1, <2>1, <2>2 DEF ContentInit, ContentTyped, Nothing
<1>5. PublishedVersions
  BY <1>3 DEF PublishedVersions, OnPage, ItemOf
<1>6. QED
  BY <1>1, <1>4, <1>5 DEF ContentInit, ContentInv, TabsWereShown, ReceiptsWereShown, Nothing

(* One field of a row is written.                                            *)
LEMMA ItemRow ==
    ASSUME NEW row \in ItemRows, NEW status, NEW version, NEW confirmed, NEW allowed
    PROVE  /\ [row EXCEPT !.status = status]
                = ItemOf(status, row.version, row.confirmed, row.allowed)
           /\ [row EXCEPT !.version = version]
                = ItemOf(row.status, version, row.confirmed, row.allowed)
           /\ [row EXCEPT !.confirmed = confirmed]
                = ItemOf(row.status, row.version, confirmed, row.allowed)
           /\ [row EXCEPT !.allowed = allowed]
                = ItemOf(row.status, row.version, row.confirmed, allowed)
<1>1. row = ItemOf(row.status, row.version, row.confirmed, row.allowed)
  BY DEF ItemRows, ItemOf
<1>2. QED
  BY <1>1 DEF ItemOf

LEMMA ItemOfRow ==
    ASSUME NEW status \in {"absent", "published", "retracted"}, NEW version \in ItemVersions,
           NEW confirmed \in BOOLEAN, NEW allowed \in BOOLEAN
    PROVE  LET new == ItemOf(status, version, confirmed, allowed) IN
           /\ new \in ItemRows
           /\ new.status = status /\ new.version = version
           /\ new.confirmed = confirmed /\ new.allowed = allowed
  BY DEF ItemRows, ItemOf

LEMMA ChangeKeepsContent ==
    ASSUME ContentInv, NEW e \in Items, ChangeItem(e)
    PROVE  ContentInv'
<1>1. item \in [Items -> ItemRows] /\ item[e] \in ItemRows
  BY DEF ContentInv, ContentTyped
<1>2. item[e].status \in {"absent", "published", "retracted"}
      /\ item[e].version \in ItemVersions /\ item[e].confirmed \in BOOLEAN
      /\ item[e].allowed \in BOOLEAN
  BY <1>1 DEF ItemRows
<1>3. item[e].status = "published" => item[e].version # 0
  BY DEF ContentInv, PublishedVersions, OnPage
<1>4. \E row \in ItemRows : item' = [item EXCEPT ![e] = row]
                            /\ (row.status = "published" => row.version # 0)
  <2>1. ASSUME item[e].version < VersionMax, NEW confirmed \in BOOLEAN,
               item' = [item EXCEPT ![e].status = "published", ![e].version = @ + 1,
                                    ![e].confirmed = confirmed]
        PROVE  \E row \in ItemRows : item' = [item EXCEPT ![e] = row]
                                     /\ (row.status = "published" => row.version # 0)
    <3> DEFINE next == item[e].version + 1
               one == ItemOf("published", item[e].version, item[e].confirmed, item[e].allowed)
               two == ItemOf("published", next, item[e].confirmed, item[e].allowed)
               three == ItemOf("published", next, confirmed, item[e].allowed)
    <3>1. next \in ItemVersions /\ next # 0
      BY <1>2, <2>1, ContentAssumption DEF ItemVersions
    <3>2. one \in ItemRows /\ one.version = item[e].version
      BY <1>2, ItemOfRow
    <3>3. two \in ItemRows
      BY <1>2, <3>1, ItemOfRow
    <3>4. three \in ItemRows /\ three.version = next
      BY <1>2, <2>1, <3>1, ItemOfRow
    <3>5. [item[e] EXCEPT !.status = "published"] = one
      BY <1>1, ItemRow
    <3>6. [one EXCEPT !.version = next] = two
      BY DEF ItemOf
    <3>7. [two EXCEPT !.confirmed = confirmed] = three
      BY DEF ItemOf
    <3>8. item' = [item EXCEPT ![e] = [[[item[e] EXCEPT !.status = "published"]
                      EXCEPT !.version = next] EXCEPT !.confirmed = confirmed]]
      BY <1>1, <2>1, <3>2, <3>5
    <3>9. item' = [item EXCEPT ![e] = three]
      BY <3>5, <3>6, <3>7, <3>8, Zenon
    <3>10. QED
      BY <3>1, <3>4, <3>9
  <2>2. CASE OnPage(e) /\ item' = [item EXCEPT ![e].status = "retracted"]
    <3> DEFINE new == ItemOf("retracted", item[e].version, item[e].confirmed, item[e].allowed)
    <3>1. item' = [item EXCEPT ![e] = new]
      BY <1>1, <2>2, ItemRow
    <3>2. new \in ItemRows /\ new.status = "retracted"
      BY <1>2, ItemOfRow
    <3>3. QED
      BY <3>1, <3>2
  <2>3. CASE item' = [item EXCEPT ![e].confirmed = ~@]
    <3>1. PICK confirmed \in BOOLEAN : confirmed = ~item[e].confirmed
      OBVIOUS
    <3> DEFINE new == ItemOf(item[e].status, item[e].version, confirmed, item[e].allowed)
    <3>2. item' = [item EXCEPT ![e] = [item[e] EXCEPT !.confirmed = confirmed]]
      BY <1>1, <2>3, <3>1
    <3>3. item' = [item EXCEPT ![e] = new]
      BY <1>1, <3>2, ItemRow
    <3>4. new \in ItemRows /\ new.status = item[e].status /\ new.version = item[e].version
      BY <1>2, ItemOfRow
    <3>5. QED
      BY <1>3, <3>3, <3>4
  <2>4. CASE item' = [item EXCEPT ![e].allowed = ~@]
    <3>1. PICK allowed \in BOOLEAN : allowed = ~item[e].allowed
      OBVIOUS
    <3> DEFINE new == ItemOf(item[e].status, item[e].version, item[e].confirmed, allowed)
    <3>2. item' = [item EXCEPT ![e] = [item[e] EXCEPT !.allowed = allowed]]
      BY <1>1, <2>4, <3>1
    <3>3. item' = [item EXCEPT ![e] = new]
      BY <1>1, <3>2, ItemRow
    <3>4. new \in ItemRows /\ new.status = item[e].status /\ new.version = item[e].version
      BY <1>2, ItemOfRow
    <3>5. QED
      BY <1>3, <3>3, <3>4
  <2>5. QED
    BY <2>1, <2>2, <2>3, <2>4 DEF ChangeItem
<1>5. PublishedVersions'
  BY <1>1, <1>4 DEF ContentInv, PublishedVersions, OnPage
<1>6. item' \in [Items -> ItemRows]
  BY <1>1, <1>4
<1>7. QED
  BY <1>5, <1>6 DEF ChangeItem, historyVars, ContentInv, ContentTyped, TabsWereShown,
     ReceiptsWereShown

LEMMA OpenKeepsContent ==
    ASSUME ContentInv, NEW t \in Tabs, OpenTab(t)
    PROVE  ContentInv'
<1>1. Page \in [Items -> ItemVersions] /\ shownEver' \in [Items -> SUBSET ItemVersions]
  BY ContentAssumption DEF OpenTab, ContentInv, ContentTyped, ItemRows, Page, ItemVersions
<1>2. ContentTyped'
  BY <1>1 DEF OpenTab, ContentInv, ContentTyped
<1>3. \A e \in Items : shownEver[e] \subseteq shownEver'[e]
                       /\ (Page[e] # 0 => Page[e] \in shownEver'[e])
  BY DEF OpenTab, Page
<1>4. TabsWereShown'
  BY <1>3 DEF OpenTab, ContentInv, ContentTyped, TabsWereShown
<1>5. ReceiptsWereShown' /\ PublishedVersions'
  BY <1>3 DEF OpenTab, ContentInv, ReceiptsWereShown, PublishedVersions, OnPage
<1>6. QED
  BY <1>2, <1>4, <1>5 DEF ContentInv

LEMMA ConfirmKeepsContent ==
    ASSUME ContentInv, NEW t \in Tabs, ConfirmTab(t)
    PROVE  ContentInv'
  BY DEF ConfirmTab, ConfirmedVersion, historyVars, ContentInv, ContentTyped, PublishedVersions,
     OnPage, TabsWereShown, ReceiptsWereShown

(* A history only grows, by the versions of now.                             *)
LEMMA HistoryGrows ==
    ASSUME ContentTyped, NEW history \in [Items -> SUBSET ItemVersions], NEW some
    PROVE  /\ Adding(history, some) \in [Items -> SUBSET ItemVersions]
           /\ \A e \in Items : history[e] \subseteq Adding(history, some)[e]
           /\ \A e \in Items : e \in some => item[e].version \in Adding(history, some)[e]
  BY DEF Adding, ContentTyped, ItemRows

LEMMA AnswerKeepsContent ==
    ASSUME ContentInv, ViewAnswer
    PROVE  ContentInv'
<1>1. PICK told \in SUBSET {e \in Unseen : Confirmed(e)} :
          /\ shownEver' = Adding(shownEver, told)
          /\ baseline' = Adding(baseline, {e \in Unseen \ told : Confirmed(e)})
  BY DEF ViewAnswer
<1>2. /\ passedOver' = Adding(passedOver, {e \in Unseen : ~Confirmed(e)})
      /\ receipt' = [e \in Items |-> IF e \in Unseen THEN item[e].version ELSE receipt[e]]
      /\ UNCHANGED <<item, tab>>
  BY DEF ViewAnswer
<1>3. ContentTyped /\ item \in [Items -> ItemRows] /\ receipt \in [Items -> ItemVersions]
      /\ shownEver \in [Items -> SUBSET ItemVersions]
      /\ baseline \in [Items -> SUBSET ItemVersions]
      /\ passedOver \in [Items -> SUBSET ItemVersions]
  BY DEF ContentInv, ContentTyped
<1>4. /\ shownEver' \in [Items -> SUBSET ItemVersions]
      /\ \A e \in Items : shownEver[e] \subseteq shownEver'[e]
      /\ \A e \in told : item[e].version \in shownEver'[e]
  BY <1>1, <1>3, HistoryGrows DEF Unseen
<1>5. /\ baseline' \in [Items -> SUBSET ItemVersions]
      /\ \A e \in Items : baseline[e] \subseteq baseline'[e]
      /\ \A e \in Items : e \in Unseen \ told /\ Confirmed(e) => item[e].version \in baseline'[e]
  BY <1>1, <1>3, HistoryGrows
<1>6. /\ passedOver' \in [Items -> SUBSET ItemVersions]
      /\ \A e \in Items : passedOver[e] \subseteq passedOver'[e]
      /\ \A e \in Items : e \in Unseen /\ ~Confirmed(e) => item[e].version \in passedOver'[e]
  BY <1>2, <1>3, HistoryGrows
<1>7. receipt' \in [Items -> ItemVersions]
  BY <1>2, <1>3 DEF ItemRows
<1>8. ContentTyped'
  BY <1>2, <1>4, <1>5, <1>6, <1>7 DEF ContentInv, ContentTyped
<1>9. TabsWereShown' /\ PublishedVersions'
  BY <1>2, <1>4 DEF ContentInv, TabsWereShown, PublishedVersions, OnPage
<1>10. ASSUME NEW e \in Items, receipt'[e] # 0
       PROVE  receipt'[e] \in shownEver'[e] \cup baseline'[e] \cup passedOver'[e]
  <2>1. CASE e \in Unseen
    BY <1>2, <1>4, <1>5, <1>6, <2>1
  <2>2. CASE e \notin Unseen
    BY <1>2, <1>4, <1>5, <1>6, <1>10, <2>2 DEF ContentInv, ReceiptsWereShown
  <2>3. QED
    BY <2>1, <2>2
<1>11. QED
  BY <1>8, <1>9, <1>10 DEF ContentInv, ReceiptsWereShown

LEMMA ContentStep == ContentInv /\ [ContentNext]_contentVars => ContentInv'
<1>1. SUFFICES ASSUME ContentInv, [ContentNext]_contentVars PROVE ContentInv'
  OBVIOUS
<1>2. ASSUME UNCHANGED <<item, tab, receipt, historyVars>> PROVE ContentInv'
  BY <1>1, <1>2 DEF historyVars, ContentInv, ContentTyped, PublishedVersions, OnPage, TabsWereShown,
     ReceiptsWereShown
<1>3. ASSUME NEW k \in ReportKeys, ReuseReport(k) \/ \E anew \in BOOLEAN : SaveReport(k, anew)
      PROVE  ContentInv'
  BY <1>2, <1>3 DEF ReuseReport, SaveReport
<1>4. CASE UNCHANGED contentVars
  BY <1>2, <1>4 DEF contentVars
<1>5. QED
  BY <1>1, <1>3, <1>4, ChangeKeepsContent, OpenKeepsContent, ConfirmKeepsContent,
     AnswerKeepsContent DEF ContentNext

(* A change that no page or answer has shown the member stays on the list of   *)
(* news, but for the history of the first view and for what a view marked      *)
(* while it was unconfirmed.  (record_personal_company_view, rendered_versions) *)
THEOREM NewsStayNews == ContentSpec => []SeenWasShown
<1>1. ContentInv => SeenWasShown
  BY DEF ContentInv, ContentTyped, PublishedVersions, ReceiptsWereShown, SeenWasShown, Unseen
<1>2. QED
  BY <1>1, ContentBegins, ContentStep, PTL DEF ContentSpec

-----------------------------------------------------------------------------
(* ReleasePointer: who may be where in prepare and commit.                   *)

PointerShape ==
    /\ switcher = [o \in Switchers |-> switcher[o]]
    /\ \A o \in Switchers :
          \/ switcher[o] = Away
          \/ switcher[o].step \in {"rehearses", "asks", "links", "replaced"}

(* A rehearsal and a switch are made by the holder of the lock, which names    *)
(* their attempt.                                                           *)
LockedSteps ==
    \A o \in Switchers : switcher[o].step \in {"rehearses", "links", "replaced"} =>
        lockHolder = o /\ lockName = switcher[o].attempt
AcceptedSteps ==
    \A o \in Switchers : switcher[o].step \in {"asks", "links", "replaced"} =>
        switcher[o].attempt \in accepted
(* What was compared under the lock still is so when the link is replaced.    *)
ReviewedLinks ==
    \A o \in Switchers : switcher[o].step = "links" => current = reviewed[switcher[o].attempt]

PointerInv == PointerShape /\ LockedSteps /\ AcceptedSteps /\ ReviewedLinks

LEMMA AwayIsAway == Away.step = "away"
  BY DEF Away

LEMMA PointerBegins == PointerInit => PointerInv
  BY AwayIsAway DEF PointerInit, PointerInv, PointerShape, LockedSteps, AcceptedSteps, ReviewedLinks

(* One invocation goes to a step; it had the lock, or nobody had it.          *)
LEMMA SwitcherSteps ==
    ASSUME PointerInv, NEW o \in Switchers, NEW next,
           switcher' = [switcher EXCEPT ![o] = next],
           next = Away \/ next.step \in {"rehearses", "asks", "links", "replaced"},
           next.step \in {"rehearses", "links", "replaced"} =>
               lockHolder' = o /\ lockName' = next.attempt,
           next.step \in {"asks", "links", "replaced"} => next.attempt \in accepted,
           next.step = "links" => current' = reviewed[next.attempt],
           \/ lockHolder = NoSwitcher \/ lockHolder = o
           \/ UNCHANGED <<lockName, lockHolder, current>>,
           UNCHANGED <<reviewed, accepted>>
    PROVE  PointerInv'
<1>1. switcher'[o] = next /\ \A p \in Switchers \ {o} : switcher'[p] = switcher[p]
  BY DEF PointerInv, PointerShape
<1>2. PointerShape'
  BY <1>1 DEF PointerInv, PointerShape
<1>3. \A p \in Switchers \ {o} : switcher[p].step \in {"rehearses", "links", "replaced"} =>
          UNCHANGED <<lockName, lockHolder, current>>
  BY PointerAssumption DEF PointerInv, LockedSteps
<1>4. LockedSteps'
  BY <1>1, <1>3, AwayIsAway DEF PointerInv, LockedSteps
<1>5. AcceptedSteps'
  BY <1>1, AwayIsAway DEF PointerInv, AcceptedSteps
<1>6. ReviewedLinks'
  BY <1>1, <1>3, AwayIsAway DEF PointerInv, ReviewedLinks
<1>7. QED
  BY <1>2, <1>4, <1>5, <1>6 DEF PointerInv

SwitchGoal ==
    /\ PointerInv'
    /\ current' # current =>
          /\ lockName \in accepted
          /\ current = reviewed[lockName] /\ current' = TargetOf[lockName]

LEMMA PrepareKeepsPointer ==
    ASSUME PointerInv, NEW o \in Switchers,
           EndPrepare(o) \/ \E a \in Releasings : BeginPrepare(o, a)
    PROVE  SwitchGoal
<1>1. CASE EndPrepare(o)
  BY <1>1, SwitcherSteps, AwayIsAway
     DEF EndPrepare, Unlock, SwitchGoal, PointerInv, LockedSteps
<1>2. ASSUME NEW a \in Releasings, BeginPrepare(o, a) PROVE SwitchGoal
  BY <1>2, SwitcherSteps, AwayIsAway DEF BeginPrepare, Lock, StepTo, SwitchGoal
<1>3. QED
  BY <1>1, <1>2

LEMMA CommitKeepsPointer ==
    ASSUME PointerInv, NEW o \in Switchers,
           \/ BeginCommit(o) \/ ReplaceLink(o) \/ EndCommit(o) \/ SwitcherEnds(o)
           \/ \E a \in Releasings : AskCommit(o, a)
    PROVE  SwitchGoal
<1>1. ASSUME NEW a \in Releasings, AskCommit(o, a) PROVE SwitchGoal
  <2> DEFINE next == [step |-> "asks", attempt |-> a]
  <2>1. switcher' = [switcher EXCEPT ![o] = next] /\ a \in accepted
        /\ UNCHANGED <<lockName, lockHolder, reviewed, accepted, current>>
    BY <1>1 DEF AskCommit, StepTo
  <2>2. next.step = "asks" /\ next.attempt = a
    OBVIOUS
  <2> HIDE DEF next
  <2>3. PointerInv'
    BY <2>1, <2>2, SwitcherSteps
  <2>4. QED
    BY <2>1, <2>3 DEF SwitchGoal
<1>2. CASE BeginCommit(o)
  BY <1>2, SwitcherSteps, AwayIsAway
     DEF BeginCommit, Lock, StepTo, MaySwitch, SwitchGoal, PointerInv, AcceptedSteps
<1>3. CASE ReplaceLink(o)
  <2>1. lockHolder = o /\ lockName = switcher[o].attempt /\ lockName \in accepted
        /\ current = reviewed[lockName]
    BY <1>3 DEF ReplaceLink, PointerInv, LockedSteps, AcceptedSteps, ReviewedLinks
  <2>2. PointerInv'
    BY <1>3, <2>1, SwitcherSteps DEF ReplaceLink, StepTo
  <2>3. QED
    BY <1>3, <2>1, <2>2 DEF ReplaceLink, SwitchGoal
<1>4. CASE EndCommit(o)
  BY <1>4, SwitcherSteps, AwayIsAway DEF EndCommit, Unlock, SwitchGoal, PointerInv, LockedSteps
<1>5. CASE SwitcherEnds(o)
  BY <1>5, SwitcherSteps, AwayIsAway DEF SwitcherEnds, SwitchGoal
<1>6. QED
  BY <1>1, <1>2, <1>3, <1>4, <1>5

LEMMA PointerStep == PointerInv /\ [PointerNext]_pointerVars => SwitchGoal
<1>1. SUFFICES ASSUME PointerInv, [PointerNext]_pointerVars PROVE SwitchGoal
  OBVIOUS
<1>2. ASSUME NEW a \in Releasings, Accept(a) PROVE SwitchGoal
  BY <1>1, <1>2 DEF Accept, SwitchGoal, PointerInv, PointerShape, LockedSteps, AcceptedSteps,
     ReviewedLinks
<1>3. ASSUME ArchiveName \/ \E a \in Releasings : NameLock(a) PROVE SwitchGoal
  <2>1. lockHolder = NoSwitcher
        /\ UNCHANGED <<lockHolder, reviewed, accepted, current, switcher>>
    BY <1>3 DEF ArchiveName, NameLock
  <2>2. QED
    BY <1>1, <2>1, PointerAssumption DEF SwitchGoal, PointerInv, PointerShape, LockedSteps,
       AcceptedSteps, ReviewedLinks
<1>4. CASE UNCHANGED pointerVars
  BY <1>1, <1>4 DEF pointerVars, SwitchGoal, PointerInv, PointerShape, LockedSteps,
     AcceptedSteps, ReviewedLinks
<1>5. QED
  BY <1>1, <1>2, <1>3, <1>4, PrepareKeepsPointer, CommitKeepsPointer DEF PointerNext

(* Current is switched by the attempt that the lock names, accepted, away from *)
(* the release that it was reviewed against.  (prepare, commit)               *)
THEOREM SwitchesArePrepared == PointerSpec => SwitchedAsPrepared
<1>1. PointerInv /\ [PointerNext]_pointerVars => PointerInv'
  BY PointerStep DEF SwitchGoal
<1>2. PointerInv /\ [PointerNext]_pointerVars =>
        [current' # current =>
            /\ lockName \in accepted
            /\ current = reviewed[lockName] /\ current' = TargetOf[lockName]]_pointerVars
  BY PointerStep DEF SwitchGoal
<1>3. QED
  BY <1>1, <1>2, PointerBegins, PTL DEF PointerSpec, SwitchedAsPrepared

-----------------------------------------------------------------------------
(* BusinessCalls: what the audit and the query say at each place of a call.   *)

CallRows == [at : {"absent", "refused", "begun", "waiting", "prepared", "returning",
                   "error", "over"}, begun : Nat]
AuditOutcomes == {"none", "reserved", "prepared", "returned", "denied", "cancelled"}
AuditRows == [charged : BOOLEAN, at : Nat, outcome : AuditOutcomes,
              queried : {"none", "query_complete", "denied"}, bytes : Nat]

CallShape ==
    /\ call \in [Callers -> CallRows] /\ audit \in [Callers -> AuditRows]
    /\ query \in [Callers -> {"none", "running", "query_complete", "denied"}]
    /\ delivered \in [Callers -> {"none", "answer", "error"}]
    /\ slots \in Nat /\ unwritten \subseteq Callers /\ auditClock \in Nat

(* A row is there from the charge on; the answer follows the outcome          *)
(* "returned", and that a completed query.                                   *)
CallTold(c) ==
    LET row == audit[c]  sent == delivered[c] IN
    /\ query[c] = "query_complete" => row.queried = "query_complete"
    /\ call[c].at \in {"absent", "begun"} => row = NoRow /\ query[c] = "none" /\ sent = "none"
    /\ call[c].at = "refused" => row = NoRow /\ query[c] = "none" /\ sent = "error"
    /\ call[c].at = "waiting" =>
          row.charged /\ row.outcome = "reserved" /\ sent = "none"
    /\ call[c].at = "prepared" =>
          /\ row.charged /\ row.outcome = "prepared" /\ sent = "none"
          /\ query[c] = "query_complete"
    /\ call[c].at = "returning" =>
          /\ row.charged /\ row.outcome = "returned" /\ sent = "none"
          /\ query[c] = "query_complete"
    /\ call[c].at = "error" =>
          row.outcome \in {"none", "reserved", "denied"} /\ sent = "none"
    /\ call[c].at = "over" =>
          /\ sent = "answer" => row.outcome = "returned" /\ query[c] = "query_complete"
          /\ sent = "error" => row.outcome \notin {"prepared", "returned"} \/ c \in unwritten

CallInv == CallShape /\ \A c \in Callers : CallTold(c)

LEMMA NoRowIsRow ==
    /\ NoRow \in AuditRows /\ NoRow.outcome = "none" /\ ~NoRow.charged
    /\ NoRow.queried = "none"
  BY DEF NoRow, AuditRows, AuditOutcomes

AuditRow(charged, at, ending, queried, bytes) ==
    [charged |-> charged, at |-> at, outcome |-> ending, queried |-> queried, bytes |-> bytes]

(* The rows that invoke writes.                                             *)
ChargedAs(charged, at, bytes, ending) ==
    [NoRow EXCEPT !.charged = charged, !.at = at, !.bytes = bytes, !.outcome = ending]
DeniedAt(at, ending) == [NoRow EXCEPT !.at = at, !.outcome = ending]

LEMMA ChargedRow ==
    ASSUME NEW charged \in BOOLEAN, NEW at \in Nat, NEW ending \in AuditOutcomes,
           NEW bytes \in Nat
    PROVE  LET new == ChargedAs(charged, at, bytes, ending) IN
           /\ new \in AuditRows
           /\ new.queried = "none" /\ new.outcome = ending /\ new.charged = charged
  BY NoRowIsRow DEF AuditRows, ChargedAs

LEMMA DeniedRow ==
    ASSUME NEW at \in Nat, NEW ending \in AuditOutcomes
    PROVE  LET new == DeniedAt(at, ending) IN
           new \in AuditRows /\ new.queried = "none" /\ new.outcome = ending
  BY NoRowIsRow DEF AuditRows, DeniedAt

LEMMA CallsBegin == CallInit => CallInv
  BY CallAssumption, NoRowIsRow DEF CallInit, CallInv, CallShape, CallTold, CallRows

(* What a handler writes of one call.                                        *)
LEMMA OutcomeWritten ==
    ASSUME CallShape, NEW c \in Callers, NEW ending \in AuditOutcomes, Finish(c, ending)
    PROVE  /\ audit' \in [Callers -> AuditRows]
           /\ audit'[c].outcome = ending /\ audit'[c].charged = audit[c].charged
           /\ audit'[c].queried = audit[c].queried
           /\ \A d \in Callers \ {c} : audit'[d] = audit[d]
<1>1. audit' = [audit EXCEPT ![c] = [audit[c] EXCEPT !.outcome = ending]]
  BY DEF Finish, CallShape
<1>2. audit[c] \in AuditRows
  BY DEF CallShape
<1>3. [audit[c] EXCEPT !.outcome = ending] \in AuditRows
  BY <1>2 DEF AuditRows
<1>4. /\ [audit[c] EXCEPT !.outcome = ending].outcome = ending
      /\ [audit[c] EXCEPT !.outcome = ending].charged = audit[c].charged
      /\ [audit[c] EXCEPT !.outcome = ending].queried = audit[c].queried
  BY <1>2 DEF AuditRows
<1>5. QED
  BY <1>1, <1>3, <1>4 DEF CallShape

LEMMA CallGoes ==
    ASSUME CallShape, NEW c \in Callers,
           NEW where \in {"absent", "refused", "begun", "waiting", "prepared", "returning",
                          "error", "over"},
           GoTo(c, where)
    PROVE  /\ call' \in [Callers -> CallRows] /\ call'[c].at = where
           /\ \A d \in Callers \ {c} : call'[d] = call[d]
<1>1. call' = [call EXCEPT ![c] = [call[c] EXCEPT !.at = where]]
  BY DEF GoTo, CallShape
<1>2. call[c] \in CallRows
  BY DEF CallShape
<1>3. [call[c] EXCEPT !.at = where] \in CallRows /\ [call[c] EXCEPT !.at = where].at = where
  BY <1>2 DEF CallRows
<1>4. QED
  BY <1>1, <1>3 DEF CallShape

(* Only call c has moved.                                                    *)
LEMMA OneCallMoves ==
    ASSUME CallInv, NEW c \in Callers, CallShape', CallTold(c)',
           \A d \in Callers \ {c} :
               /\ call'[d] = call[d] /\ audit'[d] = audit[d]
               /\ query'[d] = query[d] /\ delivered'[d] = delivered[d]
               /\ d \in unwritten => d \in unwritten'
    PROVE  CallInv'
  BY DEF CallInv, CallTold

LEMMA BeginKeepsCalls ==
    ASSUME CallInv, NEW c \in Callers, BeginCall(c) \/ RejectToken(c) \/ QuotaFails(c)
    PROVE  CallInv'
<1>1. CASE BeginCall(c) /\ Cardinality(Admitted) < HttpMax
  <2>1. [at |-> "begun", begun |-> auditClock] \in CallRows
    BY DEF CallInv, CallShape, CallRows
  <2>2. CallShape' /\ CallTold(c)'
    BY <1>1, <2>1 DEF BeginCall, CallInv, CallShape, CallTold
  <2>3. QED
    BY <1>1, <2>2, OneCallMoves DEF BeginCall, CallInv, CallShape
<1>2. CASE BeginCall(c) /\ ~(Cardinality(Admitted) < HttpMax)
  BY <1>2, CallGoes, OneCallMoves, NoRowIsRow
     DEF BeginCall, Answered, CallInv, CallShape, CallTold
<1>3. CASE RejectToken(c)
  BY <1>3, CallGoes, OneCallMoves, NoRowIsRow
     DEF RejectToken, Answered, CallInv, CallShape, CallTold
<1>4. CASE QuotaFails(c)
  BY <1>4, CallGoes, OneCallMoves, NoRowIsRow
     DEF QuotaFails, CallInv, CallShape, CallTold
<1>5. QED
  BY <1>1, <1>2, <1>3, <1>4

LEMMA InvokeKeepsCalls ==
    ASSUME CallInv, NEW c \in Callers, InvokeTool(c)
    PROVE  CallInv'
<1>1. CallShape /\ slots \in Nat /\ CallTold(c)
  BY DEF CallInv, CallShape
<1> DEFINE row == audit'[c]
<1>2. PICK new : /\ audit' = [audit EXCEPT ![c] = new] /\ new \in AuditRows
                 /\ new.queried = "none"
                 /\ IF WithinQuota /\ slots > 0 THEN new.charged /\ new.outcome = "reserved"
                    ELSE new.outcome \in {"denied", "reserved"}
  <2>1. CASE WithinQuota
    <3>1. PICK ending \in {"denied", "reserved"} :
              /\ slots > 0 => ending = "reserved"
              /\ audit' = [audit EXCEPT ![c] =
                    [NoRow EXCEPT !.charged = TRUE, !.at = auditClock, !.bytes = ReserveBytes,
                                  !.outcome = ending]]
      BY <2>1 DEF InvokeTool
    <3>2. PICK charged \in BOOLEAN : charged = TRUE
      OBVIOUS
    <3>3. PICK new : new = ChargedAs(charged, auditClock, ReserveBytes, ending)
      OBVIOUS
    <3>4. audit' = [audit EXCEPT ![c] = new]
      BY <3>1, <3>2, <3>3 DEF ChargedAs
    <3>5. {"denied", "reserved"} \subseteq AuditOutcomes /\ auditClock \in Nat
          /\ ReserveBytes \in Nat
      BY <1>1, CallAssumption DEF AuditOutcomes, CallShape
    <3>6. new \in AuditRows /\ new.queried = "none" /\ new.outcome = ending
          /\ new.charged = charged
      BY <3>3, <3>5, ChargedRow
    <3>7. slots > 0 => new.outcome = "reserved"
      BY <1>1, <3>1, <3>6
    <3>8. new.outcome \in {"denied", "reserved"}
      BY <3>1, <3>6
    <3>9. new.charged
      BY <3>2, <3>6
    <3>10. QED
      BY <2>1, <3>4, <3>6, <3>7, <3>8, <3>9
  <2>2. CASE ~WithinQuota
    <3>1. PICK new : new = DeniedAt(auditClock, "denied")
      OBVIOUS
    <3>2. audit' = [audit EXCEPT ![c] = new]
      BY <2>2, <3>1 DEF InvokeTool, DeniedAt
    <3>3. "denied" \in AuditOutcomes /\ auditClock \in Nat
      BY <1>1 DEF AuditOutcomes, CallShape
    <3>4. new \in AuditRows /\ new.queried = "none" /\ new.outcome = "denied"
      BY <3>1, <3>3, DeniedRow
    <3>5. QED
      BY <2>2, <3>2, <3>4
  <2>3. QED
    BY <2>1, <2>2
<1>3. audit' \in [Callers -> AuditRows] /\ audit'[c] = new
      /\ \A d \in Callers \ {c} : audit'[d] = audit[d]
  BY <1>1, <1>2 DEF CallShape
<1>4. delivered[c] = "none" /\ query[c] # "query_complete"
  BY <1>1, NoRowIsRow DEF InvokeTool, CallTold
<1>5. CASE WithinQuota /\ slots > 0
  <2>1. query' = [query EXCEPT ![c] = "running"] /\ slots' = slots - 1 /\ GoTo(c, "waiting")
        /\ UNCHANGED <<delivered, unwritten, auditClock>>
    BY <1>5 DEF InvokeTool
  <2>2. CallShape' /\ CallTold(c)'
    BY <1>1, <1>2, <1>3, <1>4, <1>5, <2>1, CallGoes DEF CallShape, CallTold
  <2>3. QED
    BY <1>1, <1>3, <2>1, <2>2, CallGoes, OneCallMoves DEF CallShape
<1>6. CASE ~(WithinQuota /\ slots > 0)
  <2>1. GoTo(c, "error") /\ UNCHANGED <<query, slots, delivered, unwritten, auditClock>>
    BY <1>6 DEF InvokeTool
  <2>2. CallShape' /\ CallTold(c)'
    BY <1>1, <1>2, <1>3, <1>4, <1>6, <2>1, CallGoes DEF CallShape, CallTold
  <2>3. QED
    BY <1>1, <1>3, <2>1, <2>2, CallGoes, OneCallMoves DEF CallShape
<1>7. QED
  BY <1>5, <1>6


LEMMA QueryKeepsCalls ==
    ASSUME CallInv, NEW c \in Callers, EndQuery(c)
    PROVE  CallInv'
<1>1. CallShape /\ CallTold(c) /\ query[c] = "running"
  BY DEF CallInv, EndQuery
<1>2. PICK result \in {"query_complete", "denied"}, size \in Nat :
          /\ \/ audit' = [audit EXCEPT ![c] = QueryFinished(@, result, size)]
             \/ result = "denied" /\ audit' = audit
          /\ query' = [query EXCEPT ![c] = result]
  <2>1. ReserveBytes \in Nat
    BY CallAssumption
  <2>2. \A size \in 0 .. ReserveBytes + 1 : size \in Nat
    BY <2>1
  <2>3. QED
    BY <2>2 DEF EndQuery
<1> DEFINE row == audit[c]
           new == AuditRow(row.charged, row.at, row.outcome, result, size)
<1>3. row \in AuditRows
  BY <1>1 DEF CallShape
<1>4. QueryFinished(row, result, size) = new
  <2>1. row = AuditRow(row.charged, row.at, row.outcome, row.queried, row.bytes)
    BY <1>3 DEF AuditRows, AuditRow
  <2>2. [row EXCEPT !.queried = result]
          = AuditRow(row.charged, row.at, row.outcome, result, row.bytes)
    BY <2>1 DEF AuditRow
  <2>3. QueryFinished(row, result, size) = [[row EXCEPT !.queried = result] EXCEPT !.bytes = size]
    BY <2>1 DEF QueryFinished, AuditRow
  <2>4. [AuditRow(row.charged, row.at, row.outcome, result, row.bytes) EXCEPT !.bytes = size] = new
    BY DEF AuditRow
  <2>5. QED
    BY <2>2, <2>3, <2>4
<1>5. new \in AuditRows
  BY <1>3 DEF AuditRows, AuditRow
<1>6. new.outcome = row.outcome /\ new.charged = row.charged /\ new.queried = result
  BY DEF AuditRow
<1>7. audit' = [audit EXCEPT ![c] = new] \/ (result = "denied" /\ audit' = audit)
  BY <1>1, <1>2, <1>4 DEF CallShape
<1> HIDE DEF new
<1>8. /\ audit' \in [Callers -> AuditRows]
      /\ audit'[c] = new \/ (result = "denied" /\ audit'[c] = row)
      /\ \A d \in Callers \ {c} : audit'[d] = audit[d]
  BY <1>1, <1>5, <1>7 DEF CallShape
<1>9. slots' \in Nat /\ UNCHANGED <<call, delivered, unwritten, auditClock>>
  BY <1>1 DEF EndQuery, CallShape
<1>10. query'[c] = result /\ \A d \in Callers \ {c} : query'[d] = query[d]
  BY <1>1, <1>2 DEF CallShape
<1>11. CallShape'
  BY <1>1, <1>2, <1>8, <1>9 DEF CallShape
<1>12. call[c].at \notin {"absent", "begun", "refused", "prepared", "returning"}
  BY <1>1, NoRowIsRow DEF CallTold
<1>13. CallTold(c)'
  BY <1>1, <1>6, <1>8, <1>9, <1>10, <1>12 DEF CallTold
<1>14. QED
  BY <1>8, <1>9, <1>10, <1>11, <1>13, OneCallMoves

(* The other handlers write an outcome, an answer and where the call goes.    *)
LEMMA CallerKeepsCalls ==
    ASSUME CallInv, NEW c \in Callers,
           \/ TimeOut(c) \/ CollectResult(c) \/ WriteReturned(c) \/ SendAnswer(c)
           \/ SendError(c) \/ AbortCall(c)
    PROVE  CallInv'
<1>1. CallShape /\ CallTold(c) /\ AuditOutcomes = AuditOutcomes
  BY DEF CallInv
<1>2. ASSUME NEW ending \in AuditOutcomes, Finish(c, ending) \/ UNCHANGED audit,
             NEW where \in {"prepared", "returning", "error", "over"}, GoTo(c, where),
             NEW what \in {"none", "answer", "error"},
             Answered(c, what) \/ UNCHANGED delivered,
             CallTold(c)', UNCHANGED <<query, slots, auditClock>>,
             unwritten' = unwritten \/ unwritten' = unwritten \union {c}
      PROVE  CallInv'
  <2>1. delivered' \in [Callers -> {"none", "answer", "error"}]
        /\ \A d \in Callers \ {c} : delivered'[d] = delivered[d]
    BY <1>1, <1>2 DEF Answered, CallShape
  <2>2. audit' \in [Callers -> AuditRows] /\ \A d \in Callers \ {c} : audit'[d] = audit[d]
    BY <1>1, <1>2, OutcomeWritten DEF CallShape
  <2>3. call' \in [Callers -> CallRows] /\ \A d \in Callers \ {c} : call'[d] = call[d]
    BY <1>1, <1>2, CallGoes
  <2>4. CallShape'
    BY <1>1, <1>2, <2>1, <2>2, <2>3 DEF CallShape
  <2>5. QED
    BY <1>2, <2>1, <2>2, <2>3, <2>4, OneCallMoves
<1>3. {"prepared", "returned", "denied", "cancelled"} \subseteq AuditOutcomes
  BY DEF AuditOutcomes
<1>4. ASSUME NEW ending \in {"prepared", "denied"},
             Finish(c, ending) \/ (ending = "denied" /\ UNCHANGED audit),
             NEW where, GoTo(c, where), call[c].at = "waiting",
             \/ ending = "denied" /\ where = "error"
             \/ ending = "prepared" /\ where = "prepared" /\ query[c] = "query_complete",
             UNCHANGED <<query, slots, delivered, unwritten, auditClock>>
      PROVE  CallInv'
  <2>1. CallTold(c)'
    BY <1>1, <1>3, <1>4, OutcomeWritten, CallGoes DEF CallTold
  <2>2. QED
    BY <1>2, <1>3, <1>4, <2>1
<1>5. CASE TimeOut(c)
  BY <1>4, <1>5 DEF TimeOut, TryFinish
<1>6. CASE CollectResult(c)
  BY <1>4, <1>6 DEF CollectResult, TryFinish
<1>7. CASE WriteReturned(c)
  <2>1. CallTold(c)'
    BY <1>1, <1>3, <1>7, OutcomeWritten, CallGoes DEF WriteReturned, CallTold
  <2>2. QED
    BY <1>2, <1>3, <1>7, <2>1 DEF WriteReturned
<1>8. CASE SendAnswer(c)
  <2>1. delivered'[c] = "answer"
    BY <1>1, <1>8 DEF SendAnswer, Answered, CallShape
  <2>2. CallTold(c)'
    BY <1>1, <1>8, <2>1, CallGoes DEF SendAnswer, CallTold
  <2>3. QED
    BY <1>2, <1>3, <1>8, <2>2 DEF SendAnswer
<1>9. CASE SendError(c)
  <2>1. delivered'[c] = "error"
    BY <1>1, <1>9 DEF SendError, Answered, CallShape
  <2>2. CallTold(c)'
    BY <1>1, <1>9, <2>1, CallGoes DEF SendError, CallTold
  <2>3. QED
    BY <1>2, <1>3, <1>9, <2>2 DEF SendError
<1>10. CASE AbortCall(c)
  <2>1. PICK what \in {"none", "error"} : Answered(c, what)
    BY <1>10 DEF AbortCall
  <2>2. delivered'[c] = what
    BY <1>1, <2>1 DEF Answered, CallShape
  <2>3. /\ audit'[c].queried = audit[c].queried
        /\ audit'[c].outcome \notin {"prepared", "returned"} \/ c \in unwritten'
    BY <1>1, <1>3, <1>10, OutcomeWritten, NoRowIsRow DEF AbortCall, CallTold
  <2>4. CallTold(c)'
    BY <1>1, <1>10, <2>2, <2>3, CallGoes DEF AbortCall, CallTold
  <2>5. QED
    BY <1>2, <1>3, <1>10, <2>1, <2>4 DEF AbortCall
<1>11. QED
  BY <1>5, <1>6, <1>7, <1>8, <1>9, <1>10

LEMMA CallStep == CallInv /\ [CallNext]_callVars => CallInv'
<1>1. SUFFICES ASSUME CallInv, [CallNext]_callVars PROVE CallInv'
  OBVIOUS
<1>2. CASE ChangeToken \/ AuditTick \/ UNCHANGED callVars
  BY <1>1, <1>2 DEF ChangeToken, AuditTick, callVars, CallInv, CallShape, CallTold
<1>3. QED
  BY <1>1, <1>2, BeginKeepsCalls, InvokeKeepsCalls, QueryKeepsCalls, CallerKeepsCalls DEF CallNext

(* An answer is sent only beside a returned row of a completed query, and an   *)
(* error never beside "returned" unless the audit took no end of the call.    *)
(* (query_finish, finish, audited_send)                                      *)
THEOREM AuditAgrees == CallSpec => []AuditTellsDelivery
<1>1. CallInv => AuditTellsDelivery
  <2>1. ASSUME CallInv, NEW c \in Callers
        PROVE  /\ delivered[c] = "answer" =>
                     audit[c].outcome = "returned" /\ audit[c].queried = "query_complete"
               /\ delivered[c] = "error" =>
                     audit[c].outcome \notin {"prepared", "returned"} \/ c \in unwritten
    <3>1. CallTold(c) /\ call[c].at \in {"absent", "refused", "begun", "waiting", "prepared",
                                         "returning", "error", "over"}
      BY <2>1 DEF CallInv, CallShape, CallRows
    <3>2. QED
      BY <3>1, NoRowIsRow DEF CallTold
  <2>2. QED
    BY <2>1 DEF AuditTellsDelivery
<1>2. QED
  BY <1>1, CallsBegin, CallStep, PTL DEF CallSpec

-----------------------------------------------------------------------------
(* CuratedImport: one application at a time, and its plan is of now.          *)

CuratedShape ==
    /\ curator = [c \in Curators |-> curator[c]]
    /\ \A c \in Curators :
          \/ curator[c].step = "rests"
          \/ /\ curator[c].step \in {"approves", "applies"}
             /\ curator[c].book \in Workbooks /\ curator[c].at \in Nat
             /\ curator[c] = [step |-> curator[c].step, book |-> curator[c].book,
                              at |-> curator[c].at, binds |-> curator[c].binds,
                              plan |-> curator[c].plan]
    /\ curatedClock \in Nat

(* Nothing of an event is there before it is, and a version always is after.  *)
FactShape ==
    /\ fact = [status |-> fact.status, version |-> fact.version, confirmed |-> fact.confirmed]
    /\ fact.status \in {"absent", "published", "retracted"} /\ fact.confirmed \subseteq Nat
    /\ IF fact.status = "absent" THEN fact.version = NoVersion /\ fact.confirmed = {}
       ELSE fact.version # NoVersion

OneApplies == \A c, d \in Curators :
    curator[c].step = "applies" /\ curator[d].step = "applies" => c = d

(* Nothing that is confirmed later stands against the version of a workbook.   *)
Unopposed(c, w, at) ==
    w \notin Reviewed \/ Current(c) = VersionIn[w] \/ Current(c) = NoVersion \/ ~Overtaken(at)

(* Only a retraction falls between the plan under the lock and the commit.     *)
PlanHolds ==
    \A c \in Curators : curator[c].step = "applies" =>
        /\ curator[c].plan.action # "conflict" =>
              Unopposed(c, curator[c].book, curator[c].at)
        /\ curator[c].plan.current = Current(c)

CuratedInv == CuratedShape /\ FactShape /\ OneApplies /\ PlanHolds

CuratedGoal ==
    /\ CuratedInv'
    /\ fact'.version # fact.version =>
          /\ fact.status = "retracted" => fact'.status = "retracted"
          /\ \A t \in fact.confirmed : \E u \in fact'.confirmed : u >= t
          /\ \E c \in Applying :
                /\ curator[c].plan.current = Current(c)
                /\ \A t \in fact.confirmed : curator[c].at >= t

LEMMA RestingStep == NotAtWork.step = "rests"
  BY DEF NotAtWork

LEMMA CuratedBegins == CuratedInit => CuratedInv
  BY RestingStep DEF CuratedInit, CuratedInv, CuratedShape, FactShape, OneApplies, PlanHolds

(* A curator previews, or rests, and the facts stay as they are.              *)
LEMMA CuratorAside ==
    ASSUME CuratedInv, NEW c \in Curators, NEW next,
           curator' = [curator EXCEPT ![c] = next],
           \/ next.step = "rests"
           \/ /\ next.step = "approves" /\ next.book \in Workbooks /\ next.at \in Nat
              /\ next = [step |-> next.step, book |-> next.book, at |-> next.at,
                         binds |-> next.binds, plan |-> next.plan],
           UNCHANGED <<fact, note, curatedClock>>
    PROVE  CuratedGoal
<1>1. curator'[c] = next /\ \A d \in Curators \ {c} : curator'[d] = curator[d]
  BY DEF CuratedInv, CuratedShape
<1>2. CuratedShape' /\ OneApplies'
  BY <1>1 DEF CuratedInv, CuratedShape, OneApplies
<1>3. PlanHolds'
  BY <1>1 DEF CuratedInv, PlanHolds, Unopposed, Current, Overtaken
<1>4. FactShape'
  BY DEF CuratedInv, FactShape
<1>5. QED
  BY <1>2, <1>3, <1>4 DEF CuratedGoal, CuratedInv

LEMMA ApplyBegins ==
    ASSUME CuratedInv, NEW c \in Curators, BeginApply(c)
    PROVE  CuratedGoal
<1>1. CASE PlanAnew(c) # curator[c].plan
  BY <1>1, CuratorAside, RestingStep DEF BeginApply
<1>2. CASE PlanAnew(c) = curator[c].plan
  <2>1. PICK next : next = [curator[c] EXCEPT !.step = "applies"]
    OBVIOUS
  <2>2. curator' = [curator EXCEPT ![c] = next] /\ UNCHANGED <<fact, note, curatedClock>>
    BY <1>2, <2>1 DEF BeginApply, CuratedInv, CuratedShape
  <2>3. curator[c].book \in Workbooks /\ curator[c].at \in Nat
    BY DEF BeginApply, CuratedInv, CuratedShape
  <2>4. curator[c] = [step |-> "approves", book |-> curator[c].book, at |-> curator[c].at,
                      binds |-> curator[c].binds, plan |-> curator[c].plan]
    BY DEF BeginApply, CuratedInv, CuratedShape
  <2>5. next = [step |-> "applies", book |-> curator[c].book, at |-> curator[c].at,
                binds |-> curator[c].binds, plan |-> curator[c].plan]
    BY <2>1, <2>4
  <2>6. /\ next.step = "applies" /\ next.book = curator[c].book /\ next.at = curator[c].at
        /\ next.plan = curator[c].plan
        /\ next = [step |-> next.step, book |-> next.book, at |-> next.at,
                   binds |-> next.binds, plan |-> next.plan]
    BY <2>5
  <2>7. curator'[c] = next /\ \A d \in Curators \ {c} : curator'[d] = curator[d]
    BY <2>2 DEF CuratedInv, CuratedShape
  <2>8. CuratedShape'
    BY <2>2, <2>3, <2>6, <2>7 DEF CuratedInv, CuratedShape
  <2>9. OneApplies'
    BY <2>7 DEF BeginApply, Applying, OneApplies
  <2>10. /\ curator[c].plan.action = RecordAction(c, curator[c].book, curator[c].at)
         /\ curator[c].plan.current = Current(c)
    BY <1>2 DEF PlanAnew, PlanFor
  <2> curator[c].plan.action # "conflict" => Unopposed(c, curator[c].book, curator[c].at)
    BY <2>10 DEF RecordAction, Unopposed
  <2>11. PlanHolds'
    BY <2>2, <2>6, <2>7, <2>10 DEF CuratedInv, PlanHolds, Unopposed, Current, Overtaken
  <2>12. QED
    BY <2>2, <2>8, <2>9, <2>11 DEF CuratedGoal, CuratedInv, FactShape
<1>3. QED
  BY <1>1, <1>2


LEMMA ApplyCommits ==
    ASSUME CuratedInv, NEW c \in Curators, CommitApply(c)
    PROVE  CuratedGoal
<1> DEFINE w == curator[c].book
           at == curator[c].at
           action == curator[c].plan.action
<1>1. /\ c \in Applying /\ w \in Workbooks /\ at \in Nat
      /\ action # "conflict" => Unopposed(c, w, at)
      /\ curator[c].plan.current = Current(c)
  BY DEF CommitApply, Applying, CuratedInv, CuratedShape, PlanHolds
<1>2. \A d \in Curators \ {c} : curator[d].step # "applies"
  BY DEF CommitApply, CuratedInv, OneApplies
<1>3. curator'[c] = NotAtWork /\ \A d \in Curators \ {c} : curator'[d] = curator[d]
  BY DEF CommitApply, CuratedInv, CuratedShape
<1>4. CuratedShape' /\ OneApplies' /\ PlanHolds'
  BY <1>2, <1>3, RestingStep
     DEF CommitApply, CuratedInv, CuratedShape, OneApplies, PlanHolds
<1>5. CASE UNCHANGED fact
  BY <1>4, <1>5 DEF CuratedGoal, CuratedInv, FactShape
<1>6. CASE ~UNCHANGED fact
  <2>1. PICK status : status = IF fact.status = "absent" THEN "published" ELSE fact.status
    OBVIOUS
  <2>6. /\ action # "conflict" /\ w \in Reviewed
        /\ fact' = [status |-> status, version |-> VersionIn[w],
                    confirmed |-> fact.confirmed \cup {at}]
    BY <1>6, <2>1 DEF CommitApply, StoreRecord, Promotes
  <2>7. /\ fact'.status = status /\ fact'.version = VersionIn[w]
        /\ fact'.confirmed = fact.confirmed \cup {at}
        /\ status \in {"published", "retracted"}
        /\ fact.status = "retracted" => status = "retracted"
    BY <2>1, <2>6 DEF CuratedInv, FactShape
  <2>2. FactShape'
    BY <1>1, <2>6, <2>7, CuratedAssumption DEF CuratedInv, FactShape
  <2>3. CASE VersionIn[w] = fact.version
    BY <1>4, <2>7, <2>2, <2>3 DEF CuratedGoal, CuratedInv
  <2>4. CASE VersionIn[w] # fact.version
    <3>1. fact.confirmed = {} \/ ~Overtaken(at)
      BY <1>1, <2>6, <2>4 DEF Unopposed, Current, CuratedInv, FactShape
    <3>2. \A t \in fact.confirmed : at >= t
      BY <1>1, <3>1 DEF Overtaken, CuratedInv, FactShape
    <3>3. \A t \in fact.confirmed : \E u \in fact'.confirmed : u >= t
      BY <2>7, <3>2
    <3>4. QED
      BY <1>1, <1>4, <2>7, <2>2, <3>2, <3>3 DEF CuratedGoal, CuratedInv
  <2>5. QED
    BY <2>3, <2>4
<1>7. QED
  BY <1>5, <1>6

LEMMA CuratedStep == CuratedInv /\ [CuratedNext]_curatedVars => CuratedGoal
<1>1. SUFFICES ASSUME CuratedInv, [CuratedNext]_curatedVars PROVE CuratedGoal
  OBVIOUS
<1>2. ASSUME NEW c \in Curators, NEW w \in Workbooks, Preview(c, w) PROVE CuratedGoal
  <2>1. PICK at, binds, plan :
            /\ at \in 0 .. curatedClock
            /\ curator' = [curator EXCEPT ![c] =
                [step |-> "approves", book |-> w, at |-> at, binds |-> binds, plan |-> plan]]
    BY <1>2 DEF Preview
  <2>2. at \in Nat
    BY <1>1, <2>1 DEF CuratedInv, CuratedShape
  <2>3. QED
    BY <1>1, <1>2, <2>1, <2>2, CuratorAside DEF Preview
<1>3. ASSUME NEW c \in Curators, GiveUp(c) PROVE CuratedGoal
  BY <1>1, <1>3, CuratorAside, RestingStep DEF GiveUp
<1>4. CASE RetractFact
  <2>1. fact' = [status |-> "retracted", version |-> fact.version, confirmed |-> fact.confirmed]
    BY <1>1, <1>4 DEF RetractFact, CuratedInv, FactShape
  <2>2. /\ fact'.status = "retracted" /\ fact'.version = fact.version
        /\ fact'.confirmed = fact.confirmed /\ fact.status = "published"
        /\ UNCHANGED <<note, curator, curatedClock>>
    BY <1>4, <2>1 DEF RetractFact
  <2>3. \A c \in Curators : Current(c)' = Current(c)
    BY <2>2 DEF Current
  <2>4. \A at : Overtaken(at)' <=> Overtaken(at)
    BY <2>2 DEF Overtaken
  <2>5. PlanHolds'
    BY <1>1, <2>2, <2>3, <2>4 DEF CuratedInv, PlanHolds, Unopposed
  <2>6. CuratedShape' /\ OneApplies'
    BY <1>1, <2>2 DEF CuratedInv, CuratedShape, OneApplies
  <2>7. FactShape'
    BY <1>1, <2>1, <2>2 DEF CuratedInv, FactShape
  <2>8. QED
    BY <2>2, <2>5, <2>6, <2>7 DEF CuratedGoal, CuratedInv
<1>5. CASE CancelBinding \/ CuratedTick \/ UNCHANGED curatedVars
  <2>1. UNCHANGED <<fact, note, curator>> /\ curatedClock' \in Nat
    BY <1>1, <1>5 DEF CancelBinding, CuratedTick, curatedVars, CuratedInv, CuratedShape
  <2>2. QED
    BY <1>1, <2>1 DEF CuratedGoal, CuratedInv, CuratedShape, FactShape, OneApplies, PlanHolds,
       Unopposed, Current, Overtaken
<1>6. QED
  BY <1>1, <1>2, <1>3, <1>4, <1>5, ApplyBegins, ApplyCommits DEF CuratedNext

(* A shared record changes to a version confirmed no earlier than all before   *)
(* it, by a plan that saw what it replaces, and a retracted one stays so.      *)
(* (preview_curated_import, apply_curated_import)                             *)
THEOREM NewestStays == CuratedSpec => NewestConfirmationShown
<1>1. CuratedInv /\ [CuratedNext]_curatedVars => CuratedInv'
  BY CuratedStep DEF CuratedGoal
<1>2. CuratedInv /\ [CuratedNext]_curatedVars =>
        [fact'.version # fact.version =>
            /\ fact.status = "retracted" => fact'.status = "retracted"
            /\ \A t \in fact.confirmed : \E u \in fact'.confirmed : u >= t
            /\ \E c \in Applying :
                  /\ curator[c].plan.current = Current(c)
                  /\ \A t \in fact.confirmed : curator[c].at >= t]_curatedVars
  BY CuratedStep DEF CuratedGoal
<1>3. QED
  BY <1>1, <1>2, CuratedBegins, PTL DEF CuratedSpec, NewestConfirmationShown

-----------------------------------------------------------------------------
(* Publication: what clerks have read, and what is shared.                   *)

PublicationShape ==
    /\ lead \in [Leads -> LeadRow] /\ shared \in [Facts -> SharedRow]
    /\ review \in [Reviews -> ReviewRow]
    /\ clerk = [c \in Clerks |-> clerk[c]]
    /\ \A l \in Leads : \A r \in lead[l].evidence : LeadOf[r] = l

(* An open transaction is about rows that exist; the evidence of a promotion   *)
(* is of its lead.                                                          *)
ClerksKnow ==
    \A c \in Clerks :
        /\ clerk[c].op \in {"import", "resolve"} => clerk[c].record \in Records
        /\ clerk[c].op \in {"promote", "reject"} => clerk[c].lead \in Leads
        /\ clerk[c].op = "promote" =>
              /\ clerk[c].evidence # {} /\ clerk[c].evidence \subseteq Records
              /\ \A r \in clerk[c].evidence : LeadOf[r] = clerk[c].lead
        /\ clerk[c].op = "retract" => clerk[c].event \in Facts \cup Reviews
        /\ clerk[c].op = "review" => clerk[c].review \in Reviews

PublicationInv == PublicationShape /\ ClerksKnow /\ SharedAsDecided

PublicationGoal ==
    /\ PublicationInv'
    /\ \A f \in Facts : shared[f].status = "retracted" => shared'[f].status = "retracted"

LEMMA IdleOp == Idle.op = "idle"
  BY DEF Idle

LEMMA NothingPublished ==
    ASSUME NEW sh, NEW rv,
           \A f \in Facts : sh[f].status # "published",
           \A v \in Reviews : rv[v].event # "published"
    PROVE  Published(sh, rv) = 0
<1>1. {f \in Facts : sh[f].status = "published"} = {}
      /\ {v \in Reviews : rv[v].event = "published"} = {}
  OBVIOUS
<1>2. QED
  BY <1>1, FS_EmptySet DEF Published

LEMMA PublicationBegins == PublicationInit => PublicationInv
<1>1. SUFFICES ASSUME PublicationInit PROVE PublicationInv
  OBVIOUS
<1>2. PublicationShape
  BY <1>1 DEF PublicationInit, PublicationShape, LeadRow, SharedRow, ReviewRow
<1>3. ClerksKnow
  BY <1>1, IdleOp DEF PublicationInit, ClerksKnow
<1>4. Published(shared, review) = 0
  <2>1. \A f \in Facts : shared[f].status # "published"
    BY <1>1 DEF PublicationInit
  <2>2. \A v \in Reviews : review[v].event # "published"
    BY <1>1 DEF PublicationInit
  <2>3. QED
    BY <2>1, <2>2, NothingPublished
<1>5. SharedAsDecided
  BY <1>1, <1>4 DEF PublicationInit, SharedAsDecided
<1>6. QED
  BY <1>2, <1>3, <1>5 DEF PublicationInv

(* A handler reads and checks.                                               *)
LEMMA ClerkBeginsWell ==
    ASSUME PublicationInv, NEW c \in Clerks, ClerkBegins(c)
    PROVE  PublicationGoal
<1>1. ASSUME NEW next, Begin(c, next), UNCHANGED rows,
             next.op \in {"import", "resolve"} => next.record \in Records,
             next.op \in {"promote", "reject"} => next.lead \in Leads,
             next.op = "promote" => /\ next.evidence # {} /\ next.evidence \subseteq Records
                                    /\ \A r \in next.evidence : LeadOf[r] = next.lead,
             next.op = "retract" => next.event \in Facts \cup Reviews,
             next.op = "review" => next.review \in Reviews
      PROVE  PublicationGoal
  <2>1. clerk'[c] = next /\ (\A d \in Clerks \ {c} : clerk'[d] = clerk[d])
        /\ clerk' = [d \in Clerks |-> clerk'[d]]
    BY <1>1 DEF Begin, PublicationInv, PublicationShape
  <2>2. ClerksKnow'
    BY <1>1, <2>1 DEF PublicationInv, ClerksKnow
  <2>3. PublicationShape' /\ SharedAsDecided'
    BY <1>1, <2>1 DEF rows, PublicationInv, PublicationShape, SharedAsDecided, Published
  <2>4. QED
    BY <1>1, <2>2, <2>3 DEF rows, PublicationGoal, PublicationInv
<1>2. ASSUME NEW r \in Records, BeginImport(c, r) \/ BeginResolve(c, r) PROVE PublicationGoal
  BY <1>1, <1>2 DEF BeginImport, BeginResolve, Begin
<1>3. ASSUME NEW r \in FromMonitoring, BeginJudge(c, r) PROVE PublicationGoal
  BY <1>1, <1>3 DEF BeginJudge, Begin
<1>4. ASSUME NEW l \in Leads, BeginPromote(c, l) PROVE PublicationGoal
  <2>1. PICK evidence \in (SUBSET lead[l].evidence) \ {{}} :
            Begin(c, [op |-> "promote", lead |-> l, evidence |-> evidence,
                      seen |-> shared[FactOf[l]].status])
    BY <1>4 DEF BeginPromote
  <2>2. evidence # {} /\ evidence \subseteq Records /\ \A r \in evidence : LeadOf[r] = l
    <3>1. lead[l] \in LeadRow /\ \A r \in lead[l].evidence : LeadOf[r] = l
      BY DEF PublicationInv, PublicationShape
    <3>2. lead[l].evidence \subseteq Records
      BY <3>1 DEF LeadRow
    <3>3. QED
      BY <2>1, <3>1, <3>2
  <2>3. QED
    BY <1>1, <2>1, <2>2 DEF Begin
<1>5. ASSUME NEW l \in Leads, BeginReject(c, l) PROVE PublicationGoal
  BY <1>1, <1>5 DEF BeginReject, Begin
<1>6. ASSUME NEW e \in Facts \cup Reviews, BeginRetract(c, e) PROVE PublicationGoal
  BY <1>1, <1>6 DEF BeginRetract, Begin
<1>7. ASSUME NEW v \in Reviews, BeginReview(c, v) PROVE PublicationGoal
  BY <1>1, <1>7 DEF BeginReview, Begin
<1>8. QED
  BY <1>2, <1>3, <1>4, <1>5, <1>6, <1>7 DEF ClerkBegins

(* The clerk of an ended transaction knows nothing.                          *)
LEMMA ClerkLeaves ==
    ASSUME PublicationInv, NEW c \in Clerks, clerk' = [clerk EXCEPT ![c] = Idle]
    PROVE  ClerksKnow' /\ clerk' = [d \in Clerks |-> clerk'[d]]
<1>1. clerk'[c] = Idle /\ (\A d \in Clerks \ {c} : clerk'[d] = clerk[d])
      /\ clerk' = [d \in Clerks |-> clerk'[d]]
  BY DEF PublicationInv, PublicationShape
<1>2. QED
  BY <1>1, IdleOp DEF PublicationInv, ClerksKnow

LEMMA RouteKeepsEvidence ==
    ASSUME PublicationInv, NEW t, t.record \in Records, RouteRecord(t)
    PROVE  lead' \in [Leads -> LeadRow] /\ \A l \in Leads : \A r \in lead'[l].evidence : LeadOf[r] = l
<1>1. PICK l \in Leads : l = LeadOf[t.record]
  BY PublicationAssumption
<1> DEFINE row == Routed(lead[l], t.record, t.route, t.seen)
<1>2. lead[l] \in LeadRow
  BY DEF PublicationInv, PublicationShape
<1>3. row \in LeadRow
  BY <1>2 DEF Routed, LeadRow
<1>4. \A r \in row.evidence : r \in lead[l].evidence \/ r = t.record
  BY DEF Routed
<1> HIDE DEF row
<1>5. lead' = [lead EXCEPT ![l] = row]
  BY <1>1 DEF RouteRecord, PublicationInv, PublicationShape, row
<1>6. QED
  BY <1>1, <1>3, <1>4, <1>5 DEF PublicationInv, PublicationShape


(* What is published did not change.                                         *)
LEMMA PublishedSame ==
    ASSUME NEW sh, NEW rv, NEW sh2, NEW rv2,
           \A f \in Facts : sh2[f].status = "published" <=> sh[f].status = "published",
           \A v \in Reviews : rv2[v].event = "published" <=> rv[v].event = "published"
    PROVE  Published(sh2, rv2) = Published(sh, rv)
<1>1. {f \in Facts : sh2[f].status = "published"} = {f \in Facts : sh[f].status = "published"}
      /\ {v \in Reviews : rv2[v].event = "published"} = {v \in Reviews : rv[v].event = "published"}
  OBVIOUS
<1>2. QED
  BY <1>1 DEF Published

LEMMA FactsOfLeads == \A l \in Leads : FactOf[l] \in Facts
  BY DEF Facts

(* Imports, candidate decisions, refusals of a lead, handlers that fail.       *)
LEMMA PrivateEnds ==
    ASSUME PublicationInv, NEW c \in Clerks,
           EndJudge(c) \/ EndImport(c) \/ EndResolve(c) \/ EndReject(c) \/ RollBack(c)
    PROVE  PublicationGoal
<1>1. clerk' = [clerk EXCEPT ![c] = Idle] /\ UNCHANGED <<shared, review, snapshot, overturned>>
  BY DEF EndJudge, EndImport, EndResolve, EndReject, RollBack, Ends, KeepSnapshot, rows
<1>2. ClerksKnow' /\ clerk' = [d \in Clerks |-> clerk'[d]]
  BY <1>1, ClerkLeaves
<1>3. lead' \in [Leads -> LeadRow] /\ \A l \in Leads : \A r \in lead'[l].evidence : LeadOf[r] = l
  <2>1. CASE UNCHANGED lead
    BY <2>1 DEF PublicationInv, PublicationShape
  <2>2. CASE ~UNCHANGED lead
    <3>1. clerk[c].op \in {"import", "resolve"} /\ RouteRecord(clerk[c])
      BY <2>2 DEF EndJudge, EndImport, EndResolve, EndReject, RollBack, Ends, rows
    <3>2. clerk[c].record \in Records
      BY <3>1 DEF PublicationInv, ClerksKnow
    <3>3. QED
      BY <3>1, <3>2, RouteKeepsEvidence
  <2>3. QED
    BY <2>1, <2>2
<1>4. PublicationShape'
  BY <1>1, <1>2, <1>3 DEF PublicationInv, PublicationShape
<1>5. \/ UNCHANGED outcome
      \/ \E l \in Leads : Undecided(l) /\ outcome' = outcome \cup {<<"reject", l>>}
  BY DEF EndJudge, EndImport, EndResolve, EndReject, RollBack, Ends, rows, MayDecide,
     PublicationInv, ClerksKnow
<1>6. SharedAsDecided'
  BY <1>1, <1>5 DEF PublicationInv, SharedAsDecided, Undecided, Published
<1>7. QED
  BY <1>1, <1>2, <1>4, <1>6 DEF PublicationGoal, PublicationInv

LEMMA PromoteEnds ==
    ASSUME PublicationInv, NEW c \in Clerks, EndPromote(c)
    PROVE  PublicationGoal
<1> DEFINE t == clerk[c]
<1>1. /\ t.lead \in Leads /\ t.evidence # {} /\ t.evidence \subseteq Records
      /\ \A r \in t.evidence : LeadOf[r] = t.lead
  BY DEF EndPromote, Ends, PublicationInv, ClerksKnow
<1>2. PICK f \in Facts : f = FactOf[t.lead]
  BY <1>1, FactsOfLeads
<1>3. shared[f] \in SharedRow
  BY DEF PublicationInv, PublicationShape
<1>4. PICK row : row = [status |-> PromotedStatus(t.seen, shared[f].status),
                        evidence |-> shared[f].evidence \cup t.evidence]
  OBVIOUS
<1>5. /\ Undecided(t.lead) /\ (t.seen = "absent" => shared[f].status = "absent")
      /\ shared' = [shared EXCEPT ![f] = row]
      /\ outcome' = outcome \cup {<<"promote", t.lead>>}
      /\ clerk' = [clerk EXCEPT ![c] = Idle]
      /\ snapshot' = Published(shared', review')
      /\ UNCHANGED <<lead, review>>
  BY <1>2, <1>4 DEF EndPromote, Ends, MayDecide, RefreshSnapshot, PublicationInv, PublicationShape
<1>6. row \in SharedRow /\ row.evidence = shared[f].evidence \cup t.evidence
      /\ (shared[f].status = "retracted" => row.status = "retracted")
  BY <1>1, <1>3, <1>4, <1>5 DEF SharedRow, PromotedStatus
<1>7. shared' \in [Facts -> SharedRow] /\ shared'[f] = row
      /\ \A g \in Facts \ {f} : shared'[g] = shared[g]
  BY <1>5, <1>6 DEF PublicationInv, PublicationShape
<1>8. PublicationShape' /\ ClerksKnow'
  BY <1>5, <1>7, ClerkLeaves DEF PublicationInv, PublicationShape
<1>9. \A g \in Facts :
          /\ shared'[g].status = "published" => shared'[g].evidence # {}
          /\ \A r \in shared'[g].evidence : <<"promote", LeadOf[r]>> \in outcome'
  BY <1>1, <1>5, <1>6, <1>7 DEF PublicationInv, SharedAsDecided
<1>10. \A l \in Leads : ~(<<"promote", l>> \in outcome' /\ <<"reject", l>> \in outcome')
  BY <1>5 DEF PublicationInv, SharedAsDecided, Undecided
<1>11. SharedAsDecided'
  BY <1>5, <1>9, <1>10 DEF SharedAsDecided
<1>12. QED
  BY <1>6, <1>7, <1>8, <1>11 DEF PublicationGoal, PublicationInv

LEMMA RetractEnds ==
    ASSUME PublicationInv, NEW c \in Clerks, EndRetract(c)
    PROVE  PublicationGoal
<1> DEFINE e == clerk[c].event
<1>1. /\ e \in Facts \cup Reviews /\ outcome' = outcome \cup {<<"retract", e>>}
      /\ clerk' = [clerk EXCEPT ![c] = Idle] /\ snapshot' = Published(shared', review')
      /\ UNCHANGED lead
  BY DEF EndRetract, Ends, RefreshSnapshot, PublicationInv, ClerksKnow
<1>2. /\ shared' \in [Facts -> SharedRow]
      /\ \A f \in Facts : shared'[f].evidence = shared[f].evidence
                          /\ shared'[f].status \in {shared[f].status, "retracted"}
  <2>1. CASE e \in Facts
    <3>1. shared[e] \in SharedRow /\ shared' = [shared EXCEPT ![e] = [shared[e] EXCEPT !.status = "retracted"]]
      BY <2>1 DEF EndRetract, PublicationInv, PublicationShape
    <3>2. [shared[e] EXCEPT !.status = "retracted"]
            = [status |-> "retracted", evidence |-> shared[e].evidence]
      BY <3>1 DEF SharedRow
    <3>3. [status |-> "retracted", evidence |-> shared[e].evidence] \in SharedRow
      BY <3>1 DEF SharedRow
    <3>4. QED
      BY <2>1, <3>1, <3>2, <3>3 DEF PublicationInv, PublicationShape
  <2>2. CASE e \notin Facts
    BY <2>2 DEF EndRetract, PublicationInv, PublicationShape
  <2>3. QED
    BY <2>1, <2>2
<1>3. review' \in [Reviews -> ReviewRow]
  <2>1. CASE e \in Facts
    BY <2>1 DEF EndRetract, PublicationInv, PublicationShape
  <2>2. CASE e \notin Facts
    <3>1. e \in Reviews /\ review[e] \in ReviewRow
          /\ review' = [review EXCEPT ![e] = [review[e] EXCEPT !.event = "retracted"]]
      BY <1>1, <2>2 DEF EndRetract, PublicationInv, PublicationShape
    <3>2. [review[e] EXCEPT !.event = "retracted"] \in ReviewRow
      BY <3>1 DEF ReviewRow
    <3>3. QED
      BY <3>1, <3>2 DEF PublicationInv, PublicationShape
  <2>3. QED
    BY <2>1, <2>2
<1>4. PublicationShape' /\ ClerksKnow'
  BY <1>1, <1>2, <1>3, ClerkLeaves DEF PublicationInv, PublicationShape
<1>5. SharedAsDecided'
  BY <1>1, <1>2 DEF PublicationInv, SharedAsDecided
<1>6. QED
  BY <1>2, <1>4, <1>5 DEF PublicationGoal, PublicationInv

LEMMA ReviewEnds ==
    ASSUME PublicationInv, NEW c \in Clerks, Approve(c) \/ Refuse(c)
    PROVE  PublicationGoal
<1> DEFINE v == clerk[c].review
<1>1. v \in Reviews /\ clerk' = [clerk EXCEPT ![c] = Idle]
      /\ UNCHANGED <<lead, shared, outcome>>
  BY DEF Approve, Refuse, Ends, PublicationInv, ClerksKnow
<1>2. PublicationShape' /\ ClerksKnow'
  <2>1. PICK row \in ReviewRow : review' = [review EXCEPT ![v] = row]
    BY DEF Approve, Refuse, ReviewRow
  <2>2. QED
    BY <1>1, <2>1, ClerkLeaves DEF PublicationInv, PublicationShape
<1>3. snapshot' = Published(shared', review') \/ overturned'
  <2>1. CASE Approve(c)
    BY <2>1 DEF Approve, RefreshSnapshot
  <2>2. CASE Refuse(c)
    <3>1. review' = [review EXCEPT ![v] = [status |-> "rejected", event |-> "rejected"]]
          /\ overturned' = (overturned \/ review[v].event = "published")
          /\ UNCHANGED snapshot
      BY <2>2 DEF Refuse
    <3>2. CASE overturned \/ review[v].event = "published"
      BY <3>1, <3>2
    <3>3. CASE ~overturned /\ review[v].event # "published"
      <4>1. \A u \in Reviews : review'[u].event = "published" <=> review[u].event = "published"
        BY <1>1, <3>1, <3>3 DEF PublicationInv, PublicationShape
      <4>2. Published(shared', review') = Published(shared, review)
        BY <1>1, <4>1, PublishedSame
      <4>3. QED
        BY <3>1, <3>3, <4>2 DEF PublicationInv, SharedAsDecided
    <3>4. QED
      BY <3>2, <3>3
  <2>3. QED
    BY <2>1, <2>2
<1>4. SharedAsDecided'
  BY <1>1, <1>3 DEF PublicationInv, SharedAsDecided
<1>5. QED
  BY <1>1, <1>2, <1>4 DEF PublicationGoal, PublicationInv

LEMMA PublicationStep == PublicationInv /\ [PublicationNext]_publicationVars => PublicationGoal
<1>1. SUFFICES ASSUME PublicationInv, [PublicationNext]_publicationVars PROVE PublicationGoal
  OBVIOUS
<1>2. CASE UNCHANGED publicationVars
  BY <1>1, <1>2 DEF publicationVars, PublicationGoal, PublicationInv, PublicationShape,
     ClerksKnow, SharedAsDecided, Published
<1>3. QED
  BY <1>1, <1>2, ClerkBeginsWell, PrivateEnds, PromoteEnds, RetractEnds, ReviewEnds
     DEF PublicationNext, ClerkEnds

(* Only promoted evidence is shared, nothing is promoted and rejected, and the *)
(* snapshot counts what is on show.  (promote_private_event,                  *)
(* reject_private_event, _refresh_company_snapshot)                           *)
THEOREM SharingIsDecided == PublicationSpec => []SharedAsDecided
<1>1. PublicationInv /\ [PublicationNext]_publicationVars => PublicationInv'
  BY PublicationStep DEF PublicationGoal
<1>2. PublicationInv => SharedAsDecided
  BY DEF PublicationInv
<1>3. QED
  BY <1>1, <1>2, PublicationBegins, PTL DEF PublicationSpec

(* A retracted fact stays retracted, also for a promotion that has checked it  *)
(* before.  (retract_shared_event, promote_private_event)                     *)
THEOREM RetractionsHold == PublicationSpec => RetractedForGood
<1>1. PublicationInv /\ [PublicationNext]_publicationVars => PublicationInv'
  BY PublicationStep DEF PublicationGoal
<1>2. PublicationInv /\ [PublicationNext]_publicationVars =>
        [\A f \in Facts : shared[f].status = "retracted" =>
              shared'[f].status = "retracted"]_publicationVars
  BY PublicationStep DEF PublicationGoal
<1>3. QED
  BY <1>1, <1>2, PublicationBegins, PTL DEF PublicationSpec, RetractedForGood

-----------------------------------------------------------------------------
(* ReleaseOps: one operator runs, and how far an isolation has come.          *)

HostRows == [entrance : {"static", "normal"}, apps : SUBSET {"api", "frontend"},
             role : {"readonly", "normal"}]
Acts == {"start_api", "start_frontend", "restore_role", "open_normal_proxy", "isolate"}

OperatorShape ==
    /\ operator = [o \in Operators |-> operator[o]]
    /\ \A o \in Operators :
          \/ operator[o].step = "off"
          \/ operator[o].step = "authorized" /\ operator[o].act \in Acts
          \/ /\ operator[o].step = "runs" /\ operator[o].act \in Acts
             /\ operator[o].index \in Nat /\ operator[o].passed \in BOOLEAN
             /\ operator[o] = [step |-> "runs", attempt |-> operator[o].attempt,
                               act |-> operator[o].act, index |-> operator[o].index,
                               passed |-> operator[o].passed]

(* Who runs has the lock; while somebody runs no isolation has passed, and one *)
(* that is under way is his, and has done what its commands before now do.    *)
RunsUnderLock ==
    \A o \in Operators : operator[o].step = "runs" =>
        /\ flock = o /\ isolated # "yes"
        /\ isolated = "underway" =>
              /\ operator[o].act = "isolate"
              /\ operator[o].passed =>
                    /\ operator[o].index > 1 => host.entrance = "static"
                    /\ operator[o].index > 2 => host.apps = {}
                    /\ operator[o].index > 3 => host.role = "readonly"

ReleaseInv == host \in HostRows /\ OperatorShape /\ RunsUnderLock /\ IsolationHolds

LEMMA OffStep == Off.step = "off"
  BY DEF Off

LEMMA IsolateCommands ==
    /\ Len(Commands["isolate"]) = 4
    /\ Commands["isolate"][1] = "up static proxy" /\ Commands["isolate"][2] = "stop"
    /\ Commands["isolate"][3] = "restrict" /\ Commands["isolate"][4] = "verify"
<1>1. Commands["isolate"] = <<"up static proxy", "stop", "restrict", "verify">>
  BY DEF Commands
<1>2. Len(<<"up static proxy", "stop", "restrict", "verify">>) = 4
  OBVIOUS
<1>3. /\ <<"up static proxy", "stop", "restrict", "verify">>[1] = "up static proxy"
      /\ <<"up static proxy", "stop", "restrict", "verify">>[2] = "stop"
      /\ <<"up static proxy", "stop", "restrict", "verify">>[3] = "restrict"
      /\ <<"up static proxy", "stop", "restrict", "verify">>[4] = "verify"
  OBVIOUS
<1>4. QED
  BY <1>1, <1>2, <1>3, Zenon

LEMMA CommandsCounted == \A act \in Acts : Len(Commands[act]) \in Nat
<1>1. /\ Commands["start_api"] = <<"up api">> /\ Commands["start_frontend"] = <<"up frontend">>
      /\ Commands["restore_role"] = <<"restore role">>
      /\ Commands["open_normal_proxy"] = <<"config", "up normal proxy">>
  BY DEF Commands
<1>2. /\ Len(<<"up api">>) \in Nat /\ Len(<<"up frontend">>) \in Nat
      /\ Len(<<"restore role">>) \in Nat /\ Len(<<"config", "up normal proxy">>) \in Nat
  OBVIOUS
<1>3. /\ Len(Commands["start_api"]) \in Nat /\ Len(Commands["start_frontend"]) \in Nat
      /\ Len(Commands["restore_role"]) \in Nat /\ Len(Commands["open_normal_proxy"]) \in Nat
  BY <1>1, <1>2, Zenon
<1>6. 4 \in Nat
  OBVIOUS
<1>4. Len(Commands["isolate"]) \in Nat
  BY <1>6, IsolateCommands, Zenon
<1>5. QED
  BY <1>3, <1>4, Zenon DEF Acts

LEMMA EffectOfCommand ==
    ASSUME NEW h \in HostRows, NEW command
    PROVE  /\ Effect(h, command) \in HostRows
           /\ command = "up static proxy" => Effect(h, command).entrance = "static"
           /\ command \in {"stop", "restrict", "verify"} =>
                 Effect(h, command).entrance = h.entrance
           /\ command = "stop" => Effect(h, command).apps = {}
           /\ command \in {"up static proxy", "restrict", "verify"} =>
                 Effect(h, command).apps = h.apps
           /\ command = "restrict" => Effect(h, command).role = "readonly"
           /\ command \in {"up static proxy", "stop", "verify"} =>
                 Effect(h, command).role = h.role
<1>1. CASE command = "up api"
  BY <1>1 DEF Effect, HostRows
<1>2. CASE command = "up frontend"
  BY <1>2 DEF Effect, HostRows
<1>3. CASE command = "restore role"
  BY <1>3 DEF Effect, HostRows
<1>4. CASE command = "up normal proxy"
  BY <1>4 DEF Effect, HostRows
<1>5. CASE command = "up static proxy"
  BY <1>5 DEF Effect, HostRows
<1>6. CASE command = "stop"
  BY <1>6 DEF Effect, HostRows
<1>7. CASE command = "restrict"
  BY <1>7 DEF Effect, HostRows
<1>8. CASE command \notin {"up api", "up frontend", "restore role", "up normal proxy",
                           "up static proxy", "stop", "restrict"}
  BY <1>8 DEF Effect
<1>9. QED
  BY <1>1, <1>2, <1>3, <1>4, <1>5, <1>6, <1>7, <1>8

LEMMA ReleaseBegins == ReleaseInit => ReleaseInv
  BY OffStep DEF ReleaseInit, ReleaseInv, HostRows, IsolatedHost, OperatorShape, RunsUnderLock,
     IsolationHolds

(* An operator that does not run afterwards, nor isolates.                    *)
LEMMA OperatorAside ==
    ASSUME ReleaseInv, NEW o \in Operators, NEW next,
           operator' = [operator EXCEPT ![o] = next],
           next.step = "off" \/ (next.step = "authorized" /\ next.act \in Acts),
           UNCHANGED <<host, isolated>>,
           UNCHANGED flock \/ flock = o
    PROVE  ReleaseInv'
<1>1. operator'[o] = next /\ \A p \in Operators \ {o} : operator'[p] = operator[p]
  BY DEF ReleaseInv, OperatorShape
<1>2. OperatorShape'
  BY <1>1 DEF ReleaseInv, OperatorShape
<1>3. RunsUnderLock'
  BY <1>1 DEF ReleaseInv, RunsUnderLock
<1>4. QED
  BY <1>2, <1>3 DEF ReleaseInv, IsolationHolds

LEMMA ActionBegins ==
    ASSUME ReleaseInv, NEW o \in Operators, BeginAction(o)
    PROVE  ReleaseInv'
<1>1. PICK next : next = [step |-> "runs", attempt |-> operator[o].attempt,
                          act |-> operator[o].act, index |-> 1, passed |-> TRUE]
  OBVIOUS
<1>2. operator' = [operator EXCEPT ![o] = next] /\ flock = NoOperator /\ flock' = o
      /\ UNCHANGED host /\ operator[o].step = "authorized"
      /\ isolated' = IF operator[o].act = "isolate" THEN "underway" ELSE "no"
  BY <1>1 DEF BeginAction, TakeLock, MayLock, hostVars, ReleaseInv, OperatorShape
<1>3. operator'[o] = next /\ \A p \in Operators \ {o} : operator'[p] = operator[p]
  BY <1>2 DEF ReleaseInv, OperatorShape
<1>4. operator[o].act \in Acts
  BY <1>2 DEF ReleaseInv, OperatorShape
<1>5. /\ next.step = "runs" /\ next.act = operator[o].act /\ next.index = 1
      /\ next.passed = TRUE /\ next.passed \in BOOLEAN
      /\ next = [step |-> "runs", attempt |-> next.attempt, act |-> next.act,
                 index |-> next.index, passed |-> next.passed]
  BY <1>1
<1>6. OperatorShape'
  BY <1>2, <1>3, <1>4, <1>5 DEF ReleaseInv, OperatorShape
<1>7. \A p \in Operators \ {o} : operator'[p].step # "runs"
  BY <1>2, <1>3, ReleaseAssumption DEF ReleaseInv, RunsUnderLock
<1>8. RunsUnderLock'
  BY <1>2, <1>3, <1>5, <1>7 DEF RunsUnderLock
<1>9. QED
  BY <1>2, <1>6, <1>8 DEF ReleaseInv, IsolationHolds


LEMMA CommandRuns ==
    ASSUME ReleaseInv, NEW o \in Operators, RunCommand(o)
    PROVE  ReleaseInv'
<1> DEFINE act == operator[o].act
           index == operator[o].index
           command == CommandOf(o)
<1>1. /\ operator[o].step = "runs" /\ act \in Acts /\ index \in Nat
      /\ operator[o].passed \in BOOLEAN /\ host \in HostRows
      /\ operator[o] = [step |-> "runs", attempt |-> operator[o].attempt, act |-> act,
                        index |-> index, passed |-> operator[o].passed]
      /\ flock = o /\ isolated # "yes" /\ UNCHANGED <<flock, isolated>>
      /\ index <= Len(Commands[act])
  BY DEF RunCommand, ReleaseInv, OperatorShape, RunsUnderLock
<1>2. PICK passes \in BOOLEAN, lands \in BOOLEAN :
          /\ passes => lands /\ (command = "verify" => host.role = "readonly")
          /\ Becomes(IF lands THEN Effect(host, command) ELSE host)
          /\ operator' = [operator EXCEPT ![o].index =
                 IF passes \/ act = "isolate" THEN @ + 1 ELSE Len(Commands[act]) + 1,
                 ![o].passed = @ /\ passes]
  BY DEF RunCommand
<1>3. PICK i : i = IF passes \/ act = "isolate" THEN index + 1 ELSE Len(Commands[act]) + 1
  OBVIOUS
<1>4. PICK ok \in BOOLEAN : ok = (operator[o].passed /\ passes)
  OBVIOUS
<1>5. PICK next : next = [step |-> "runs", attempt |-> operator[o].attempt, act |-> act,
                          index |-> i, passed |-> ok]
  OBVIOUS
<1>6. operator' = [operator EXCEPT ![o] = next]
  <2>1. operator' = [operator EXCEPT ![o] = [[operator[o] EXCEPT !.index = i] EXCEPT !.passed = ok]]
    BY <1>1, <1>2, <1>3, <1>4 DEF ReleaseInv, OperatorShape
  <2>2. [operator[o] EXCEPT !.index = i]
          = [step |-> "runs", attempt |-> operator[o].attempt, act |-> act,
             index |-> i, passed |-> operator[o].passed]
    BY <1>1
  <2>3. [[step |-> "runs", attempt |-> operator[o].attempt, act |-> act, index |-> i,
          passed |-> operator[o].passed] EXCEPT !.passed = ok] = next
    BY <1>5
  <2>4. QED
    BY <2>1, <2>2, <2>3
<1>7. operator'[o] = next /\ \A p \in Operators \ {o} : operator'[p] = operator[p]
  BY <1>6 DEF ReleaseInv, OperatorShape
<1>8. i \in Nat
  <2>1. Len(Commands[act]) \in Nat
    BY <1>1, CommandsCounted
  <2>2. QED
    BY <1>1, <1>3, <2>1
<1>9. /\ next.step = "runs" /\ next.act = act /\ next.index = i /\ next.passed = ok
      /\ next = [step |-> "runs", attempt |-> next.attempt, act |-> next.act,
                 index |-> next.index, passed |-> next.passed]
  BY <1>5
<1>10. OperatorShape'
  BY <1>1, <1>4, <1>6, <1>7, <1>8, <1>9 DEF ReleaseInv, OperatorShape
<1>11. host' = IF lands THEN Effect(host, command) ELSE host
  BY <1>2 DEF Becomes
<1>12. host' \in HostRows
  BY <1>1, <1>11, EffectOfCommand
<1>13. \A p \in Operators \ {o} : operator[p].step # "runs"
  BY <1>1 DEF ReleaseInv, RunsUnderLock
<1>14. ASSUME isolated = "underway", ok
       PROVE  /\ i > 1 => host'.entrance = "static"
              /\ i > 2 => host'.apps = {}
              /\ i > 3 => host'.role = "readonly"
  <2>1. act = "isolate" /\ operator[o].passed /\ passes /\ lands
    BY <1>1, <1>2, <1>4, <1>14 DEF ReleaseInv, RunsUnderLock
  <2>10. i = index + 1 /\ index \in 0 .. 4
    <3>1. Len(Commands[act]) = 4
      BY <2>1, IsolateCommands, Zenon
    <3>2. index \in Nat /\ index <= Len(Commands[act])
      BY <1>1
    <3> HIDE DEF index
    <3>3. QED
      BY <1>3, <2>1, <3>1, <3>2
  <2>2. /\ index > 1 => host.entrance = "static"
        /\ index > 2 => host.apps = {}
        /\ index > 3 => host.role = "readonly"
    BY <1>1, <1>14, <2>1 DEF ReleaseInv, RunsUnderLock
  <2>3. host' = Effect(host, command) /\ command = Commands["isolate"][index]
    BY <1>11, <2>1 DEF CommandOf
  <2>4. CASE index = 0
    BY <2>4, <2>10
  <2>5. CASE index = 1
    <3>1. command = "up static proxy"
      BY <2>3, <2>5, IsolateCommands
    <3>2. Effect(host, "up static proxy").entrance = "static"
      BY <1>1, EffectOfCommand
    <3>3. host' = Effect(host, "up static proxy")
      BY <2>3, <3>1
    <3> HIDE DEF index, command
    <3>4. QED
      <4>1. i = 2
        BY <2>5, <2>10
      <4>2. host'.entrance = "static"
        BY <3>2, <3>3
      <4>3. QED
        BY <4>1, <4>2
  <2>6. CASE index = 2
    <3>1. command = "stop"
      BY <2>3, <2>6, IsolateCommands
    <3>2. /\ Effect(host, "stop").entrance = host.entrance
          /\ Effect(host, "stop").apps = {}
      BY <1>1, EffectOfCommand
    <3>3. host' = Effect(host, "stop")
      BY <2>3, <3>1
    <3> HIDE DEF index, command
    <3>4. QED
      BY <2>2, <2>10, <2>6, <3>2, <3>3
  <2>7. CASE index = 3
    <3>1. command = "restrict"
      BY <2>3, <2>7, IsolateCommands
    <3>2. /\ Effect(host, "restrict").entrance = host.entrance
          /\ Effect(host, "restrict").apps = host.apps
          /\ Effect(host, "restrict").role = "readonly"
      BY <1>1, EffectOfCommand
    <3>3. host' = Effect(host, "restrict")
      BY <2>3, <3>1
    <3> HIDE DEF index, command
    <3>4. QED
      BY <2>2, <2>10, <2>7, <3>2, <3>3
  <2>8. CASE index = 4
    <3>1. command = "verify"
      BY <2>3, <2>8, IsolateCommands
    <3>2. /\ Effect(host, "verify").entrance = host.entrance
          /\ Effect(host, "verify").apps = host.apps
          /\ Effect(host, "verify").role = host.role
      BY <1>1, EffectOfCommand
    <3>3. host' = Effect(host, "verify")
      BY <2>3, <3>1
    <3> HIDE DEF index, command
    <3>4. QED
      BY <2>2, <2>10, <2>8, <3>2, <3>3
  <2>9. QED
    BY <2>4, <2>5, <2>6, <2>7, <2>8, <2>10
<1>15. isolated = "underway" => act = "isolate"
  BY <1>1 DEF ReleaseInv, RunsUnderLock
<1>16. RunsUnderLock'
  BY <1>1, <1>7, <1>9, <1>13, <1>14, <1>15 DEF RunsUnderLock
<1>17. QED
  BY <1>1, <1>10, <1>12, <1>16 DEF ReleaseInv, IsolationHolds

LEMMA ActionEnds ==
    ASSUME ReleaseInv, NEW o \in Operators, EndAction(o)
    PROVE  ReleaseInv'
<1>1. /\ operator[o].step = "runs" /\ flock = o /\ flock' = NoOperator /\ UNCHANGED host
      /\ operator' = [operator EXCEPT ![o] = Off]
      /\ isolated' = IF isolated = "underway" /\ operator[o].passed THEN "yes" ELSE "no"
      /\ operator[o].index > Len(Commands[operator[o].act]) /\ operator[o].index \in Nat
  BY DEF EndAction, LeaveLock, hostVars, ReleaseInv, OperatorShape, RunsUnderLock
<1>2. operator'[o] = Off /\ \A p \in Operators \ {o} : operator'[p] = operator[p]
  BY <1>1 DEF ReleaseInv, OperatorShape
<1>3. OperatorShape'
  BY <1>1, <1>2, OffStep DEF ReleaseInv, OperatorShape
<1>4. \A p \in Operators : operator'[p].step # "runs"
  BY <1>1, <1>2, OffStep DEF ReleaseInv, RunsUnderLock
<1>5. isolated' = "yes" => host' = IsolatedHost
  <2>1. SUFFICES ASSUME isolated = "underway", operator[o].passed PROVE host = IsolatedHost
    BY <1>1
  <2>2. operator[o].act = "isolate"
    BY <1>1, <2>1 DEF ReleaseInv, RunsUnderLock
  <2>3. operator[o].index > 4
    BY <1>1, <2>2, IsolateCommands
  <2>4. host.entrance = "static" /\ host.apps = {} /\ host.role = "readonly"
    BY <1>1, <2>1, <2>3 DEF ReleaseInv, RunsUnderLock
  <2>5. QED
    BY <2>4 DEF ReleaseInv, HostRows, IsolatedHost
<1>6. QED
  BY <1>1, <1>3, <1>4, <1>5 DEF ReleaseInv, IsolationHolds, RunsUnderLock

LEMMA ReleaseStep == ReleaseInv /\ [ReleaseNext]_releaseVars => ReleaseInv'
<1>1. SUFFICES ASSUME ReleaseInv, [ReleaseNext]_releaseVars PROVE ReleaseInv'
  OBVIOUS
<1>2. ASSUME UNCHANGED <<host, flock, operator, isolated>> PROVE ReleaseInv'
  BY <1>1, <1>2 DEF ReleaseInv, OperatorShape, RunsUnderLock, IsolationHolds
<1>3. CASE EvidenceAges \/ ArchiveLock \/ (\E a \in Attempts : Rehearse(a))
           \/ UNCHANGED releaseVars
  BY <1>2, <1>3 DEF EvidenceAges, ArchiveLock, Rehearse, hostVars, releaseVars
<1>4. CASE StrayLands
  <2>1. PICK command \in stray : host' = Effect(host, command)
    BY <1>4 DEF StrayLands, Becomes
  <2>2. host' \in HostRows
    BY <1>1, <2>1, EffectOfCommand DEF ReleaseInv
  <2>3. QED
    BY <1>1, <1>4, <2>2
       DEF StrayLands, ReleaseInv, OperatorShape, RunsUnderLock, IsolationHolds
<1>5. ASSUME NEW o \in Operators, NEW a \in Attempts, NEW act \in DOMAIN Required,
             AuthorizeAction(o, a, act)
      PROVE  ReleaseInv'
  <2>1. act \in Acts
    BY <1>5 DEF Required, Acts
  <2>2. QED
    BY <1>1, <1>5, <2>1, OperatorAside DEF AuthorizeAction, hostVars
<1>6. ASSUME NEW o \in Operators, GiveUpStep(o) \/ OperatorDies(o) PROVE ReleaseInv'
  BY <1>1, <1>6, OperatorAside, OffStep DEF GiveUpStep, OperatorDies, LeaveLock, hostVars
<1>7. QED
  BY <1>1, <1>3, <1>4, <1>5, <1>6, ActionBegins, CommandRuns, ActionEnds DEF ReleaseNext

(* After an isolation that passed, and until something else is applied, the    *)
(* entrance is static, nothing runs, the role is read-only.  (apply_action)   *)
THEOREM IsolationStays == ReleaseSpec => []IsolationHolds
<1>1. ReleaseInv => IsolationHolds
  BY DEF ReleaseInv
<1>2. QED
  BY <1>1, ReleaseBegins, ReleaseStep, PTL DEF ReleaseSpec

-----------------------------------------------------------------------------
(* BusinessOAuth: the tokens of one family.                                  *)

TokenRows == [issued : BOOLEAN, used : BOOLEAN, access : Nat, refresh : Nat]
LoginRows == [stage : {"absent", "pending", "state", "asking", "consent", "code",
                       "exchanged", "over"},
              until : Nat, version : Nat, since : Nat]

OAuthShape ==
    /\ token \in [Logins -> [TokenNumbers -> TokenRows]]
    /\ login \in [Logins -> LoginRows] /\ revoked \in [Logins -> Nat]
    /\ grant \in [version : Nat, active : BOOLEAN] /\ oauthClock \in Nat
    /\ exchange = [e \in Exchanges |-> exchange[e]]
    /\ \A e \in Exchanges :
          \/ exchange[e].at = "idle"
          \/ exchange[e].at = "code" /\ exchange[e].family \in Logins
          \/ /\ exchange[e].at \in {"refresh", "consumed"} /\ exchange[e].family \in Logins
             /\ exchange[e].number \in TokenNumbers
             /\ exchange[e] = [at |-> exchange[e].at, family |-> exchange[e].family,
                               number |-> exchange[e].number]

Usable(t) == t.issued /\ ~t.used
Refreshing(l) == {e \in Exchanges : exchange[e].at \in {"refresh", "consumed"}
                                    /\ exchange[e].family = l}
Consumed(l) == {e \in Exchanges : exchange[e].at = "consumed" /\ exchange[e].family = l}

(* One token is usable, or one request has consumed it and brings the next.    *)
OneAtATime(l) ==
    /\ \A m, n \in TokenNumbers : Usable(token[l][m]) /\ Usable(token[l][n]) => m = n
    /\ \A e \in Consumed(l) :
          /\ \A n \in TokenNumbers : ~Usable(token[l][n])
          /\ \A d \in Consumed(l) : d = e

(* Before its code is exchanged a family has nothing.                         *)
NothingBefore(l) ==
    login[l].stage # "exchanged" =>
        /\ \A n \in TokenNumbers : ~token[l][n].issued
        /\ Refreshing(l) = {} /\ l \notin withdrawn

TimesBounded(l) ==
    \A n \in TokenNumbers :
        /\ token[l][n].access <= oauthClock + AccessTtl
        /\ token[l][n].refresh <= oauthClock + RefreshTtl
        /\ ~token[l][n].issued => token[l][n].access = 0

(* The record of a revocation outlives whatever was issued before it, and a    *)
(* request that has consumed a token finds it.                               *)
RevokedOutlives(l) ==
    l \in withdrawn =>
        /\ \A n \in TokenNumbers : token[l][n].issued =>
              /\ token[l][n].access <= revoked[l]
              /\ token[l][n].used \/ token[l][n].refresh <= revoked[l]
        /\ Consumed(l) # {} => Live(revoked[l])

Family(l) == OneAtATime(l) /\ NothingBefore(l) /\ TimesBounded(l) /\ RevokedOutlives(l)
OAuthInv == OAuthShape /\ \A l \in Logins : Family(l)

LEMMA NoExchangeIdle == NoExchange.at = "idle"
  BY DEF NoExchange

LEMMA TtlNat ==
    /\ AccessTtl \in Nat /\ RefreshTtl \in Nat /\ RefreshTtl > 0 /\ AccessTtl <= RefreshTtl
    /\ CodeTtl \in Nat /\ LoginTtl \in Nat
<1>1. \A t \in {AccessTtl, RefreshTtl, CodeTtl, LoginTtl, ReauthTtl} : t \in Nat /\ t > 0
  BY OAuthAssumption
<1>2. QED
  BY <1>1, OAuthAssumption

LEMMA NoTokenRow ==
    /\ NoToken \in TokenRows /\ ~NoToken.issued /\ ~Usable(NoToken)
    /\ NoToken.access = 0 /\ NoToken.refresh = 0
  BY DEF NoToken, TokenRows, Usable

LEMMA OAuthBegins == OAuthInit => OAuthInv
<1>1. SUFFICES ASSUME OAuthInit PROVE OAuthInv
  OBVIOUS
<1>2. OAuthShape
  BY <1>1, NoExchangeIdle, NoTokenRow DEF OAuthInit, OAuthShape, LoginRows
<1>3. ASSUME NEW l \in Logins PROVE Family(l)
  <2>1. Refreshing(l) = {} /\ Consumed(l) = {}
    BY <1>1, NoExchangeIdle DEF OAuthInit, Refreshing, Consumed
  <2>2. \A n \in TokenNumbers : token[l][n] = NoToken
    BY <1>1, <1>3 DEF OAuthInit
  <2>3. OneAtATime(l) /\ NothingBefore(l) /\ RevokedOutlives(l)
    BY <1>1, <2>1, <2>2, NoTokenRow
       DEF OAuthInit, OneAtATime, NothingBefore, RevokedOutlives
  <2>4. TimesBounded(l)
    BY <1>1, <2>2, NoTokenRow, TtlNat DEF OAuthInit, TimesBounded
  <2>5. QED
    BY <2>3, <2>4 DEF Family
<1>4. QED
  BY <1>2, <1>3 DEF OAuthInv

(* A family keeps its state when its tokens, its revocation and the stage of   *)
(* its login do, requests only leave it, and no time passes a consumed one.    *)
LEMMA FamilyKept ==
    ASSUME OAuthInv, NEW l \in Logins,
           token'[l] = token[l], revoked'[l] = revoked[l],
           login'[l].stage = "exchanged" <=> login[l].stage = "exchanged",
           l \in withdrawn' <=> l \in withdrawn,
           Refreshing(l)' \subseteq Refreshing(l), Consumed(l)' \subseteq Consumed(l),
           oauthClock' \in Nat, oauthClock' >= oauthClock,
           oauthClock' = oauthClock \/ Consumed(l)' = {}
    PROVE  Family(l)'
<1>1. Family(l) /\ OAuthShape /\ oauthClock \in Nat /\ revoked[l] \in Nat
      /\ token[l] \in [TokenNumbers -> TokenRows]
  BY DEF OAuthInv, OAuthShape
<1>2. \A n \in TokenNumbers : token[l][n].access \in Nat /\ token[l][n].refresh \in Nat
  BY <1>1 DEF TokenRows
<1>3. OneAtATime(l)'
  BY <1>1 DEF Family, OneAtATime
<1>4. NothingBefore(l)'
  BY <1>1 DEF Family, NothingBefore
<1>5. TimesBounded(l)'
  BY <1>1, <1>2, TtlNat DEF Family, TimesBounded
<1>6. RevokedOutlives(l)'
  BY <1>1 DEF Family, RevokedOutlives, Live
<1>7. QED
  BY <1>3, <1>4, <1>5, <1>6 DEF Family


(* Logins move before their code is exchanged.                               *)
LEMMA LoginMoves ==
    ASSUME OAuthInv, NEW l \in Logins, login[l].stage # "exchanged",
           NEW row \in LoginRows, row.stage # "exchanged",
           login' = [login EXCEPT ![l] = row],
           UNCHANGED <<token, revoked, grant, exchange, withdrawn, oauthClock>>
    PROVE  OAuthInv'
<1>1. login' \in [Logins -> LoginRows] /\ login'[l] = row
      /\ \A k \in Logins \ {l} : login'[k] = login[k]
  BY DEF OAuthInv, OAuthShape
<1>2. OAuthShape'
  BY <1>1 DEF OAuthInv, OAuthShape
<1>3. ASSUME NEW k \in Logins PROVE Family(k)'
  <2>1. Refreshing(k)' = Refreshing(k) /\ Consumed(k)' = Consumed(k)
    BY DEF Refreshing, Consumed
  <2>2. login'[k].stage = "exchanged" <=> login[k].stage = "exchanged"
    BY <1>1
  <2>3. oauthClock \in Nat
    BY DEF OAuthInv, OAuthShape
  <2>4. QED
    BY <2>1, <2>2, <2>3, FamilyKept
<1>4. QED
  BY <1>2, <1>3 DEF OAuthInv

StageUntil(row, stage, until) == [row EXCEPT !.stage = stage, !.until = until]

LEMMA StagedRow ==
    ASSUME NEW row \in LoginRows, NEW until \in Nat,
           NEW stage \in {"pending", "state", "asking", "code"}
    PROVE  StageUntil(row, stage, until) \in LoginRows
           /\ StageUntil(row, stage, until).stage = stage
  BY DEF StageUntil, LoginRows

LEMMA LoginKeepsFamilies ==
    ASSUME OAuthInv, NEW l \in Logins,
           Authorize(l) \/ StartLogin(l) \/ AskIdentity(l) \/ IdentityAnswered(l) \/ Consent(l)
    PROVE  OAuthInv'
<1>1. login[l] \in LoginRows /\ oauthClock \in Nat /\ oauthClock + LoginTtl \in Nat
      /\ oauthClock + CodeTtl \in Nat /\ login \in [Logins -> LoginRows] /\ 0 \in Nat
  BY TtlNat DEF OAuthInv, OAuthShape
<1>2. login[l].stage # "exchanged"
      /\ UNCHANGED <<token, revoked, grant, exchange, withdrawn, oauthClock>>
  BY DEF Authorize, StartLogin, AskIdentity, IdentityAnswered, Consent
<1>3. ASSUME NEW stage \in {"pending", "state", "asking", "code"}, NEW until \in Nat,
             login' = [login EXCEPT ![l].stage = stage, ![l].until = until]
      PROVE  OAuthInv'
  <2>1. login' = [login EXCEPT ![l] = StageUntil(login[l], stage, until)]
    BY <1>1, <1>3 DEF StageUntil
  <2>2. PICK row : row = StageUntil(login[l], stage, until)
    OBVIOUS
  <2>3. row \in LoginRows /\ row.stage = stage
    BY <1>1, <2>2 DEF StageUntil, LoginRows
  <2>4. row.stage # "exchanged" /\ login' = [login EXCEPT ![l] = row]
    BY <1>3, <2>1, <2>2, <2>3
  <2>5. QED
    BY <1>2, <2>3, <2>4, LoginMoves
<1>4. ASSUME login' = [login EXCEPT ![l].stage = "over"] PROVE OAuthInv'
  <2>1. PICK row : row = [login[l] EXCEPT !.stage = "over"]
    OBVIOUS
  <2>2. row \in LoginRows /\ row.stage = "over"
    BY <1>1, <2>1 DEF LoginRows
  <2>3. login' = [login EXCEPT ![l] = row]
    BY <1>1, <1>4, <2>1
  <2>4. QED
    BY <1>2, <2>2, <2>3, LoginMoves
<1>5. ASSUME login' = [login EXCEPT ![l] = [stage |-> "consent", until |-> oauthClock + CodeTtl,
                                            version |-> grant.version, since |-> oauthClock]]
      PROVE  OAuthInv'
  <2>1. PICK row : row = [stage |-> "consent", until |-> oauthClock + CodeTtl,
                          version |-> grant.version, since |-> oauthClock]
    OBVIOUS
  <2>2. grant.version \in Nat
    BY DEF OAuthInv, OAuthShape
  <2>3. row \in LoginRows /\ row.stage # "exchanged"
    BY <1>1, <2>1, <2>2 DEF LoginRows
  <2>4. QED
    BY <1>2, <1>5, <2>1, <2>3, LoginMoves
<1>6. CASE Authorize(l)
  BY <1>1, <1>3, <1>6 DEF Authorize
<1>7. CASE StartLogin(l)
  BY <1>1, <1>3, <1>7 DEF StartLogin
<1>8. CASE AskIdentity(l)
  BY <1>1, <1>3, <1>8 DEF AskIdentity
<1>9. CASE IdentityAnswered(l)
  BY <1>4, <1>5, <1>9 DEF IdentityAnswered
<1>10. CASE Consent(l)
  BY <1>1, <1>3, <1>4, <1>10 DEF Consent
<1>11. QED
  BY <1>6, <1>7, <1>8, <1>9, <1>10

(* A request ends or begins, and nothing else happens.                       *)
LEMMA ExchangeMoves ==
    ASSUME OAuthInv, NEW e \in Exchanges, NEW next,
           exchange' = [exchange EXCEPT ![e] = next],
           \/ next.at = "idle"
           \/ next.at = "code" /\ next.family \in Logins
           \/ /\ next.at = "refresh" /\ next.family \in Logins /\ next.number \in TokenNumbers
              /\ next = [at |-> next.at, family |-> next.family, number |-> next.number]
              /\ login[next.family].stage = "exchanged",
           UNCHANGED <<login, token, revoked, grant, withdrawn, oauthClock>>
    PROVE  OAuthInv'
<1>1. exchange'[e] = next /\ \A d \in Exchanges \ {e} : exchange'[d] = exchange[d]
  BY DEF OAuthInv, OAuthShape
<1>2. OAuthShape'
  BY <1>1 DEF OAuthInv, OAuthShape
<1>3. \A l \in Logins : Consumed(l)' \subseteq Consumed(l)
  BY <1>1 DEF Consumed
<1>4. ASSUME NEW l \in Logins PROVE Family(l)'
  <2>1. CASE login[l].stage = "exchanged"
    BY <1>3, <2>1 DEF OAuthInv, Family, OneAtATime, NothingBefore, TimesBounded,
       RevokedOutlives, Live
  <2>2. CASE login[l].stage # "exchanged"
    <3>1. Refreshing(l)' \subseteq Refreshing(l)
      BY <1>1, <2>2 DEF Refreshing
    <3>2. oauthClock \in Nat
      BY DEF OAuthInv, OAuthShape
    <3>3. QED
      BY <1>3, <3>1, <3>2, FamilyKept
  <2>3. QED
    BY <2>1, <2>2
<1>5. QED
  BY <1>2, <1>4 DEF OAuthInv

(* The family is revoked while none of its tokens outlives the record.         *)
LEMMA RevocationHolds ==
    ASSUME OAuthInv, NEW l \in Logins, login[l].stage = "exchanged", RevokeFamily(l),
           UNCHANGED <<login, token, grant, oauthClock>>,
           OAuthShape', \A k \in Logins : Refreshing(k)' \subseteq Refreshing(k)
                                          /\ Consumed(k)' \subseteq Consumed(k)
    PROVE  OAuthInv'
<1>1. /\ revoked'[l] = oauthClock + RefreshTtl
      /\ \A k \in Logins \ {l} : revoked'[k] = revoked[k] /\ (k \in withdrawn' <=> k \in withdrawn)
      /\ oauthClock \in Nat
      /\ token[l] \in [TokenNumbers -> TokenRows]
  BY DEF RevokeFamily, OAuthInv, OAuthShape
<1>2. ASSUME NEW k \in Logins \ {l} PROVE Family(k)'
  BY <1>1, <1>2, FamilyKept
<1>3. Family(l)'
  <2>1. OneAtATime(l)'
    BY DEF OAuthInv, Family, OneAtATime
  <2>2. NothingBefore(l)'
    BY DEF NothingBefore
  <2>3. TimesBounded(l)'
    BY DEF OAuthInv, Family, TimesBounded
  <2>4. \A n \in TokenNumbers : /\ token'[l][n].access <= revoked'[l]
                                /\ token'[l][n].refresh <= revoked'[l]
    <3>1. ASSUME NEW n \in TokenNumbers
          PROVE  token[l][n].access <= oauthClock + RefreshTtl
      <4>1. token[l][n].access <= oauthClock + AccessTtl /\ token[l][n].access \in Nat
        BY <1>1 DEF OAuthInv, Family, TimesBounded, TokenRows
      <4>2. QED
        BY <1>1, <4>1, TtlNat
    <3>2. QED
      BY <1>1, <3>1 DEF OAuthInv, Family, TimesBounded
  <2>5. Live(revoked[l])'
    BY <1>1, TtlNat DEF Live
  <2>6. RevokedOutlives(l)'
    BY <2>4, <2>5 DEF RevokedOutlives
  <2>7. QED
    BY <2>1, <2>2, <2>3, <2>6 DEF Family
<1>4. QED
  BY <1>2, <1>3 DEF OAuthInv


(* The next token of a family that has no usable one.                        *)
LEMMA IssueKeepsFamilies ==
    ASSUME OAuthInv, NEW e \in Exchanges, NEW l \in Logins, Issue(l),
           exchange' = [exchange EXCEPT ![e] = NoExchange],
           login' \in [Logins -> LoginRows], login'[l].stage = "exchanged",
           \A k \in Logins \ {l} : login'[k] = login[k],
           \A n \in TokenNumbers : ~Usable(token[l][n]),
           Consumed(l) \subseteq {e}, l \notin withdrawn,
           UNCHANGED <<revoked, grant, withdrawn, oauthClock>>
    PROVE  OAuthInv'
<1>1. oauthClock \in Nat /\ token \in [Logins -> [TokenNumbers -> TokenRows]]
      /\ exchange = [d \in Exchanges |-> exchange[d]]
  BY DEF OAuthInv, OAuthShape
<1>2. PICK n, row :
          /\ n \in TokenNumbers
          /\ row = [issued |-> TRUE, used |-> FALSE, access |-> oauthClock + AccessTtl,
                    refresh |-> oauthClock + RefreshTtl]
          /\ token' = [token EXCEPT ![l][n] = row]
  BY DEF Issue
<1>3. row \in TokenRows /\ row.access = oauthClock + AccessTtl
      /\ row.refresh = oauthClock + RefreshTtl /\ row.issued
  BY <1>1, <1>2, TtlNat DEF TokenRows
<1>4. /\ token' \in [Logins -> [TokenNumbers -> TokenRows]] /\ token'[l][n] = row
      /\ \A m \in TokenNumbers \ {n} : token'[l][m] = token[l][m]
      /\ \A k \in Logins \ {l} : token'[k] = token[k]
  BY <1>1, <1>2, <1>3
<1>5. exchange'[e] = NoExchange /\ \A d \in Exchanges \ {e} : exchange'[d] = exchange[d]
  BY <1>1
<1>6. OAuthShape'
  BY <1>1, <1>4, <1>5, NoExchangeIdle DEF OAuthInv, OAuthShape
<1>7. Consumed(l)' = {}
  BY <1>5, NoExchangeIdle DEF Consumed
<1>8. ASSUME NEW k \in Logins \ {l} PROVE Family(k)'
  <2>1. Refreshing(k)' \subseteq Refreshing(k) /\ Consumed(k)' \subseteq Consumed(k)
    BY <1>5, NoExchangeIdle DEF Refreshing, Consumed
  <2>2. QED
    BY <1>1, <1>4, <1>8, <2>1, FamilyKept
<1>9. Family(l)'
  <2>1. \A m \in TokenNumbers : Usable(token'[l][m]) => m = n
    BY <1>4
  <2>2. OneAtATime(l)'
    BY <1>7, <2>1 DEF OneAtATime
  <2>3. NothingBefore(l)' /\ RevokedOutlives(l)'
    BY DEF NothingBefore, RevokedOutlives
  <2>4. TimesBounded(l)'
    <3>1. SUFFICES ASSUME NEW m \in TokenNumbers
                   PROVE  /\ token'[l][m].access <= oauthClock + AccessTtl
                          /\ token'[l][m].refresh <= oauthClock + RefreshTtl
                          /\ ~token'[l][m].issued => token'[l][m].access = 0
      BY DEF TimesBounded
    <3>2. CASE m = n
      BY <1>1, <1>3, <1>4, <3>2, TtlNat
    <3>3. CASE m # n
      BY <1>4, <3>3 DEF OAuthInv, Family, TimesBounded
    <3>4. QED
      BY <3>2, <3>3
  <2>5. QED
    BY <2>2, <2>3, <2>4 DEF Family
<1>10. QED
  BY <1>6, <1>8, <1>9 DEF OAuthInv

LEMMA CodeKeepsFamilies ==
    ASSUME OAuthInv, NEW e \in Exchanges, ExchangeCode(e)
    PROVE  OAuthInv'
<1>1. PICK l \in Logins : l = exchange[e].family
  BY DEF ExchangeCode, OAuthInv, OAuthShape
<1>2. exchange' = [exchange EXCEPT ![e] = NoExchange]
      /\ UNCHANGED <<revoked, grant, withdrawn, oauthClock>>
  BY DEF ExchangeCode, EndExchange
<1>3. CASE CodeIsThere(l) /\ CurrentGrant(l)
  <2>1. login' = [login EXCEPT ![l].stage = "exchanged"] /\ Issue(l)
        /\ login[l].stage = "code" /\ login \in [Logins -> LoginRows]
    BY <1>1, <1>3 DEF ExchangeCode, CodeIsThere, OAuthInv, OAuthShape
  <2>2. PICK row : row = [login[l] EXCEPT !.stage = "exchanged"]
    OBVIOUS
  <2>3. row \in LoginRows /\ row.stage = "exchanged"
    BY <2>1, <2>2 DEF LoginRows
  <2>4. login' \in [Logins -> LoginRows] /\ login'[l] = row
        /\ \A k \in Logins \ {l} : login'[k] = login[k]
    BY <2>1, <2>2, <2>3
  <2>5. (\A n \in TokenNumbers : ~token[l][n].issued) /\ Refreshing(l) = {} /\ l \notin withdrawn
    BY <2>1 DEF OAuthInv, Family, NothingBefore
  <2>6. Consumed(l) \subseteq {e} /\ \A n \in TokenNumbers : ~Usable(token[l][n])
    BY <2>5 DEF Consumed, Refreshing, Usable
  <2>7. QED
    BY <1>2, <2>1, <2>3, <2>4, <2>5, <2>6, IssueKeepsFamilies
<1>4. CASE ~(CodeIsThere(l) /\ CurrentGrant(l))
  <2>1. UNCHANGED <<login, token>>
    BY <1>1, <1>4 DEF ExchangeCode, Refused
  <2>2. QED
    BY <1>2, <2>1, ExchangeMoves, NoExchangeIdle
<1>5. QED
  BY <1>3, <1>4

(* A stored token is of a family whose code was exchanged.                    *)
LEMMA StoredIsExchanged ==
    ASSUME OAuthInv, NEW l \in Logins, NEW n \in TokenNumbers, Stored(token[l][n])
    PROVE  login[l].stage = "exchanged"
  BY DEF OAuthInv, Family, NothingBefore, Stored

LEMMA LoadKeepsFamilies ==
    ASSUME OAuthInv, NEW e \in Exchanges, NEW l \in Logins, NEW n \in TokenNumbers,
           LoadRefresh(e, l, n)
    PROVE  OAuthInv'
<1>1. login[l].stage = "exchanged" /\ UNCHANGED <<login, token, grant, oauthClock>>
  BY StoredIsExchanged DEF LoadRefresh
<1>2. CASE token[l][n].used
  <2>1. RevokeFamily(l) /\ UNCHANGED exchange
    BY <1>2 DEF LoadRefresh, Replayed
  <2>2. OAuthShape'
    BY <1>1, <2>1, TtlNat DEF RevokeFamily, OAuthInv, OAuthShape
  <2>3. \A k \in Logins : Refreshing(k)' = Refreshing(k) /\ Consumed(k)' = Consumed(k)
    BY <2>1 DEF Refreshing, Consumed
  <2>4. QED
    BY <1>1, <2>1, <2>2, <2>3, RevocationHolds
<1>3. CASE ~token[l][n].used
  <2>1. PICK next : next = [at |-> "refresh", family |-> l, number |-> n]
    OBVIOUS
  <2>2. exchange' = [exchange EXCEPT ![e] = next] /\ UNCHANGED <<revoked, withdrawn>>
    BY <1>3, <2>1 DEF LoadRefresh
  <2>3. next.at = "refresh" /\ next.family = l /\ next.number = n
        /\ next = [at |-> next.at, family |-> next.family, number |-> next.number]
    BY <2>1
  <2>4. QED
    BY <1>1, <2>2, <2>3, ExchangeMoves
<1>4. QED
  BY <1>2, <1>3

(* A token is used up by one request, which now brings the next.              *)
LEMMA UseKeepsFamilies ==
    ASSUME OAuthInv, NEW e \in Exchanges, NEW l \in Logins, NEW n \in TokenNumbers, NEW next,
           exchange[e].at = "refresh", l = exchange[e].family,
           StillUsable(token[l][n]),
           token' = [token EXCEPT ![l][n].used = TRUE],
           next = [at |-> "consumed", family |-> l, number |-> n],
           exchange' = [exchange EXCEPT ![e] = next],
           UNCHANGED <<login, revoked, grant, withdrawn, oauthClock>>
    PROVE  OAuthInv'
<1>1. oauthClock \in Nat /\ token \in [Logins -> [TokenNumbers -> TokenRows]]
      /\ exchange = [d \in Exchanges |-> exchange[d]] /\ Family(l)
      /\ revoked[l] \in Nat
  BY DEF OAuthInv, OAuthShape
<1>2. token[l][n] \in TokenRows /\ Usable(token[l][n]) /\ token[l][n].refresh > oauthClock
  BY <1>1 DEF StillUsable, Stored, Usable, Live
<1>3. PICK row : row = [token[l][n] EXCEPT !.used = TRUE]
  OBVIOUS
<1>4. row \in TokenRows /\ row.used /\ row.issued /\ row.access = token[l][n].access
      /\ row.refresh = token[l][n].refresh
  BY <1>2, <1>3 DEF TokenRows, Usable
<1>5. /\ token' \in [Logins -> [TokenNumbers -> TokenRows]] /\ token'[l][n] = row
      /\ \A m \in TokenNumbers \ {n} : token'[l][m] = token[l][m]
      /\ \A k \in Logins \ {l} : token'[k] = token[k]
  BY <1>1, <1>3, <1>4
<1>6. exchange'[e] = next /\ \A d \in Exchanges \ {e} : exchange'[d] = exchange[d]
  BY <1>1
<1>7. OAuthShape'
  BY <1>1, <1>5, <1>6 DEF OAuthInv, OAuthShape
<1>8. Consumed(l) = {}
  BY <1>1, <1>2 DEF Family, OneAtATime
<1>9. Consumed(l)' = {e}
  BY <1>6, <1>8 DEF Consumed
<1>10. ASSUME NEW k \in Logins \ {l} PROVE Family(k)'
  <2>1. Refreshing(k)' \subseteq Refreshing(k) /\ Consumed(k)' \subseteq Consumed(k)
    BY <1>6 DEF Refreshing, Consumed
  <2>2. QED
    BY <1>1, <1>5, <1>10, <2>1, FamilyKept
<1>11. Family(l)'
  <2>1. \A m \in TokenNumbers : ~Usable(token'[l][m])
    BY <1>1, <1>2, <1>4, <1>5 DEF Family, OneAtATime, Usable
  <2>2. OneAtATime(l)'
    BY <1>9, <2>1 DEF OneAtATime
  <2>3. NothingBefore(l)'
    BY <1>1, StoredIsExchanged DEF StillUsable, NothingBefore
  <2>4. TimesBounded(l)'
    BY <1>1, <1>4, <1>5 DEF Family, TimesBounded
  <2>5. RevokedOutlives(l)'
    <3>1. SUFFICES ASSUME l \in withdrawn
                   PROVE  /\ \A m \in TokenNumbers : token'[l][m].issued =>
                                /\ token'[l][m].access <= revoked[l]
                                /\ token'[l][m].used \/ token'[l][m].refresh <= revoked[l]
                          /\ revoked[l] > oauthClock
      BY DEF RevokedOutlives, Live
    <3>2. token[l][n].refresh <= revoked[l] /\ token[l][n].refresh \in Nat
      BY <1>1, <1>2, <3>1 DEF Family, RevokedOutlives, Usable, TokenRows
    <3>3. revoked[l] > oauthClock
      BY <1>1, <1>2, <3>2
    <3>4. \A m \in TokenNumbers : token'[l][m].issued =>
                                /\ token'[l][m].access <= revoked[l]
                                /\ token'[l][m].used \/ token'[l][m].refresh <= revoked[l]
      BY <1>1, <1>2, <1>4, <1>5, <3>1 DEF Family, RevokedOutlives, Usable
    <3>5. QED
      BY <3>3, <3>4
  <2>6. QED
    BY <2>2, <2>3, <2>4, <2>5 DEF Family
<1>12. QED
  BY <1>7, <1>10, <1>11 DEF OAuthInv


LEMMA ConsumeKeepsFamilies ==
    ASSUME OAuthInv, NEW e \in Exchanges, ConsumeRefresh(e)
    PROVE  OAuthInv'
<1>1. PICK l \in Logins, n \in TokenNumbers :
          /\ l = exchange[e].family /\ n = exchange[e].number
          /\ exchange[e] = [at |-> "refresh", family |-> l, number |-> n]
  BY DEF ConsumeRefresh, OAuthInv, OAuthShape
<1>2. exchange[e].at = "refresh" /\ login[l].stage = "exchanged"
      /\ UNCHANGED <<login, grant, oauthClock>>
  <2>1. exchange[e].at = "refresh"
    BY DEF ConsumeRefresh
  <2>2. e \in Refreshing(l)
    BY <1>1, <2>1 DEF Refreshing
  <2>3. QED
    BY <1>1, <2>1, <2>2 DEF ConsumeRefresh, OAuthInv, Family, NothingBefore
<1>3. CASE StillUsable(token[l][n])
  <2>1. PICK next : next = [at |-> "consumed", family |-> l, number |-> n]
    OBVIOUS
  <2>2. [exchange[e] EXCEPT !.at = "consumed"] = next
    BY <1>1, <2>1
  <2>3. exchange' = [exchange EXCEPT ![e] = [exchange[e] EXCEPT !.at = "consumed"]]
    BY <1>1, <1>3 DEF ConsumeRefresh, OAuthInv, OAuthShape
  <2>4. token' = [token EXCEPT ![l][n].used = TRUE] /\ UNCHANGED <<revoked, withdrawn>>
    BY <1>1, <1>3 DEF ConsumeRefresh
  <2>5. QED
    BY <1>1, <1>2, <1>3, <2>1, <2>2, <2>3, <2>4, UseKeepsFamilies
<1>4. CASE ~StillUsable(token[l][n])
  <2>1. exchange' = [exchange EXCEPT ![e] = NoExchange] /\ UNCHANGED token
        /\ (RevokeFamily(l) \/ UNCHANGED <<revoked, withdrawn>>)
    BY <1>1, <1>4 DEF ConsumeRefresh, Replayed, EndExchange
  <2>2. CASE UNCHANGED <<revoked, withdrawn>>
    BY <1>2, <2>1, <2>2, ExchangeMoves, NoExchangeIdle
  <2>3. CASE RevokeFamily(l)
    <3>1. exchange'[e] = NoExchange /\ \A d \in Exchanges \ {e} : exchange'[d] = exchange[d]
      BY <2>1 DEF OAuthInv, OAuthShape
    <3>2. OAuthShape'
      BY <1>2, <2>1, <2>3, <3>1, TtlNat, NoExchangeIdle DEF RevokeFamily, OAuthInv, OAuthShape
    <3>3. \A k \in Logins : Refreshing(k)' \subseteq Refreshing(k)
                            /\ Consumed(k)' \subseteq Consumed(k)
      BY <3>1, NoExchangeIdle DEF Refreshing, Consumed
    <3>4. QED
      BY <1>2, <2>1, <2>3, <3>2, <3>3, RevocationHolds
  <2>4. QED
    BY <2>1, <2>2, <2>3
<1>5. QED
  BY <1>3, <1>4

LEMMA RenewKeepsFamilies ==
    ASSUME OAuthInv, NEW e \in Exchanges, RenewTokens(e)
    PROVE  OAuthInv'
<1>1. PICK l \in Logins : l = exchange[e].family
  BY DEF RenewTokens, OAuthInv, OAuthShape
<1>2. exchange' = [exchange EXCEPT ![e] = NoExchange]
      /\ UNCHANGED <<login, revoked, grant, withdrawn, oauthClock>>
  BY DEF RenewTokens, EndExchange
<1>3. CASE MayRenew(l)
  <2>1. Issue(l) /\ ~Live(revoked[l])
    BY <1>1, <1>3 DEF RenewTokens, MayRenew
  <2>2. e \in Consumed(l) /\ e \in Refreshing(l)
    BY <1>1 DEF RenewTokens, Consumed, Refreshing
  <2>3. Family(l) /\ login \in [Logins -> LoginRows]
    BY DEF OAuthInv, OAuthShape
  <2>4. Consumed(l) \subseteq {e} /\ \A n \in TokenNumbers : ~Usable(token[l][n])
    BY <2>2, <2>3 DEF Family, OneAtATime
  <2>5. login[l].stage = "exchanged" /\ l \notin withdrawn
    BY <2>1, <2>2, <2>3 DEF Family, NothingBefore, RevokedOutlives
  <2>6. QED
    BY <1>2, <2>1, <2>3, <2>4, <2>5, IssueKeepsFamilies
<1>4. CASE ~MayRenew(l)
  <2>1. UNCHANGED token
    BY <1>1, <1>4 DEF RenewTokens
  <2>2. QED
    BY <1>2, <2>1, ExchangeMoves, NoExchangeIdle
<1>5. QED
  BY <1>3, <1>4

LEMMA OAuthStep == OAuthInv /\ [OAuthNext]_oauthVars => OAuthInv'
<1>1. SUFFICES ASSUME OAuthInv, [OAuthNext]_oauthVars PROVE OAuthInv'
  OBVIOUS
<1>2. ASSUME NEW l \in Logins, RevokeToken(l) PROVE OAuthInv'
  <2>1. login[l].stage = "exchanged"
    BY <1>1, <1>2, StoredIsExchanged DEF RevokeToken
  <2>2. RevokeFamily(l) /\ UNCHANGED <<login, token, grant, exchange, oauthClock>>
    BY <1>2 DEF RevokeToken
  <2>3. OAuthShape'
    BY <1>1, <2>2, TtlNat DEF RevokeFamily, OAuthInv, OAuthShape
  <2>4. \A k \in Logins : Refreshing(k)' = Refreshing(k) /\ Consumed(k)' = Consumed(k)
    BY <2>2 DEF Refreshing, Consumed
  <2>5. QED
    BY <1>1, <2>1, <2>2, <2>3, <2>4, RevocationHolds
<1>3. ASSUME NEW e \in Exchanges, NEW l \in Logins, LoadCode(e, l) PROVE OAuthInv'
  <2>1. PICK next : next = [at |-> "code", family |-> l]
    OBVIOUS
  <2>2. next.at = "code" /\ next.family \in Logins
    BY <2>1
  <2>3. QED
    BY <1>1, <1>3, <2>1, <2>2, ExchangeMoves DEF LoadCode
<1>4. ASSUME NEW e \in Exchanges, ExchangeLost(e) PROVE OAuthInv'
  BY <1>1, <1>4, ExchangeMoves, NoExchangeIdle DEF ExchangeLost, EndExchange
<1>5. ASSUME UNCHANGED <<login, token, revoked, exchange, withdrawn>>,
             grant' \in [version : Nat, active : BOOLEAN],
             oauthClock' \in Nat, oauthClock' >= oauthClock,
             oauthClock' = oauthClock \/ \A e \in Exchanges : exchange[e].at # "consumed"
      PROVE  OAuthInv'
  <2>1. OAuthShape'
    BY <1>1, <1>5 DEF OAuthInv, OAuthShape
  <2>2. \A l \in Logins : /\ Refreshing(l)' = Refreshing(l) /\ Consumed(l)' = Consumed(l)
                          /\ (oauthClock' = oauthClock \/ Consumed(l)' = {})
    BY <1>5 DEF Refreshing, Consumed
  <2>3. \A l \in Logins : Family(l)'
    BY <1>1, <1>5, <2>2, FamilyKept
  <2>4. QED
    BY <2>1, <2>3 DEF OAuthInv
<1>6. grant \in [version : Nat, active : BOOLEAN] /\ oauthClock \in Nat
  BY <1>1 DEF OAuthInv, OAuthShape
<1>7. CASE ChangeGrant
  <2>1. PICK version \in Nat, active \in BOOLEAN :
            grant' = [version |-> version, active |-> active]
    <3>1. grant = [version |-> grant.version, active |-> grant.active]
          /\ grant.version \in Nat /\ grant.active \in BOOLEAN /\ grant.version + 1 \in Nat
      BY <1>6
    <3>2. CASE grant' = [grant EXCEPT !.version = @ + 1]
      <4>1. grant' = [version |-> grant.version + 1, active |-> grant.active]
        BY <3>1, <3>2
      <4>2. QED
        BY <3>1, <4>1
    <3>3. CASE grant' = [grant EXCEPT !.active = ~@]
      <4>1. PICK active \in BOOLEAN : active = ~grant.active
        OBVIOUS
      <4>2. grant' = [version |-> grant.version, active |-> active]
        BY <3>1, <3>3, <4>1
      <4>3. QED
        BY <3>1, <4>2
    <3>4. QED
      BY <1>7, <3>2, <3>3 DEF ChangeGrant
  <2>2. QED
    BY <1>5, <1>6, <1>7, <2>1 DEF ChangeGrant
<1>8. CASE OAuthTick
  BY <1>5, <1>6, <1>8 DEF OAuthTick
<1>9. CASE UNCHANGED oauthVars
  BY <1>5, <1>6, <1>9 DEF oauthVars
<1>10. QED
  BY <1>1, <1>2, <1>3, <1>4, <1>7, <1>8, <1>9, LoginKeepsFamilies, CodeKeepsFamilies,
     LoadKeepsFamilies, ConsumeKeepsFamilies, RenewKeepsFamilies DEF OAuthNext

(* A consent is worth one chain of tokens, none beside its code, and none      *)
(* that is accepted once it was revoked.  (exchange_authorization_code,       *)
(* exchange_refresh_token, load_refresh_token, revoke_token)                  *)
THEOREM OneChain == OAuthSpec => []OneChainUntilRevoked
<1>1. ASSUME OAuthInv, NEW l \in Logins
      PROVE  LET usable == {n \in TokenNumbers : token[l][n].issued /\ ~token[l][n].used} IN
             /\ Cardinality(usable) <= 1
             /\ login[l].stage = "code" => \A n \in TokenNumbers : ~token[l][n].issued
             /\ l \in withdrawn => \A n \in TokenNumbers : ~Accepted(l, n)
  <2> DEFINE usable == {n \in TokenNumbers : token[l][n].issued /\ ~token[l][n].used}
  <2>1. Family(l) /\ oauthClock \in Nat /\ revoked[l] \in Nat
        /\ token[l] \in [TokenNumbers -> TokenRows]
    BY <1>1 DEF OAuthInv, OAuthShape
  <2>2. Cardinality(usable) <= 1
    <3>1. usable = {} \/ \E n \in TokenNumbers : usable = {n}
      BY <2>1 DEF Family, OneAtATime, Usable
    <3>2. Cardinality({}) = 0 /\ \A n \in TokenNumbers : Cardinality({n}) = 1
      BY FS_EmptySet, FS_Singleton
    <3> HIDE DEF usable
    <3>3. CASE usable = {}
      BY <3>2, <3>3
    <3>4. CASE \E n \in TokenNumbers : usable = {n}
      <4>1. PICK n \in TokenNumbers : usable = {n}
        BY <3>4
      <4>2. Cardinality(usable) = 1
        BY <3>2, <4>1
      <4>3. QED
        BY <4>2
    <3>5. QED
      BY <3>1, <3>3, <3>4
  <2>3. login[l].stage = "code" => \A n \in TokenNumbers : ~token[l][n].issued
    BY <2>1 DEF Family, NothingBefore
  <2>4. ASSUME l \in withdrawn, NEW n \in TokenNumbers, Accepted(l, n) PROVE FALSE
    <3>1. revoked[l] <= oauthClock
      BY <2>1, <2>4 DEF Accepted, Live
    <3>2. token[l][n] \in TokenRows
      BY <2>1
    <3>3. token[l][n].access \in Nat /\ token[l][n].refresh \in Nat
      BY <3>2 DEF TokenRows
    <3>4. CASE token[l][n].issued
      BY <2>1, <2>4, <3>1, <3>3, <3>4
         DEF Accepted, Stored, Live, Family, RevokedOutlives
    <3>5. CASE ~token[l][n].issued
      BY <2>1, <2>4, <3>5 DEF Accepted, Stored, Live, Family, TimesBounded
    <3>6. QED
      BY <3>4, <3>5
  <2>5. QED
    BY <2>2, <2>3, <2>4
<1>2. OAuthInv => OneChainUntilRevoked
  BY <1>1 DEF OneChainUntilRevoked
<1>3. QED
  BY <1>2, OAuthBegins, OAuthStep, PTL DEF OAuthSpec

-----------------------------------------------------------------------------
(* SourceFetch: what an origin has said is remembered while its rules are      *)
(* asked for and while one of its pages is.                                  *)

FetchStages == {"check", "robots", "body", "complete", "partial", "failed"}
FetchRecord ==
    [page : DOMAIN pages, stage : FetchStages, hop : Origins, attempts : Nat, redirects : Nat]
FetchShape ==
    /\ pages \in Seq(Origins) \ {<<>>}
    /\ fetch \in FetchRecord
    /\ requests \in Nat
    /\ memory \in [Origins -> MemoryRow]
(* An entry under which a page may be asked for.                             *)
Permits(entry, page) ==
    /\ entry.status \notin Limiting
    /\ \/ entry.status = "allow"
       \/ entry.status = "checked" /\ page \in entry.allowed
       \/ advisory /\ page = 1 /\ entry # Unknown
RulesHeld ==
    /\ fetch.stage = "robots" => memory[Origin] = Unknown
    /\ fetch.stage = "body" => Permits(memory[Origin], fetch.page)

FetchInv == FetchShape /\ RulesHeld

RulesKept ==
    /\ requests' > requests => ~Limited(fetch.hop)
    /\ \A o \in Origins : memory[o].status = "limited" => memory'[o].status = "limited"
    /\ requests' > requests /\ fetch.stage = "body" /\ fetch.redirects = 0 =>
           Permits(memory[Origin], fetch.page)

OffRequest(f) == f \in FetchRecord /\ f.stage \notin {"robots", "body"}

(* Where a check goes on after a page, an error or a decision.                *)
LEMMA WaysOn ==
    ASSUME FetchShape
    PROVE  /\ Origin \in Origins /\ OffRequest(NextPage)
           /\ \A code : OffRequest(Failed(code))
           /\ \A s \in {"robots", "body"} :
                 Begun(s) \in FetchRecord /\ Begun(s).stage = s /\ Begun(s).page = fetch.page
<1>1. /\ fetch.page \in DOMAIN pages /\ Origin \in Origins
      /\ fetch = [page |-> fetch.page, stage |-> fetch.stage, hop |-> fetch.hop,
                  attempts |-> fetch.attempts, redirects |-> fetch.redirects]
  BY DEF FetchShape, FetchRecord, Origin
<1>2. \A p \in DOMAIN pages : OffRequest(Arrived(p))
  BY DEF FetchShape, FetchRecord, Arrived, OffRequest, FetchStages
<1>3. fetch.page < Len(pages) => fetch.page + 1 \in DOMAIN pages
  BY <1>1 DEF FetchShape
<1>4. \A s \in {"complete", "partial", "failed"} : OffRequest([fetch EXCEPT !.stage = s])
  BY DEF FetchShape, FetchRecord, OffRequest, FetchStages
<1>5. OffRequest(NextPage)
  BY <1>2, <1>3, <1>4 DEF NextPage
<1>6. \A code : OffRequest(Failed(code))
  BY <1>4, <1>5 DEF Failed
<1>7. ASSUME NEW s \in {"robots", "body"}
      PROVE  Begun(s) \in FetchRecord /\ Begun(s).stage = s /\ Begun(s).page = fetch.page
  BY <1>1, <1>7 DEF Begun, FetchShape, FetchRecord, FetchStages
<1>8. QED
  BY <1>1, <1>5, <1>6, <1>7

LEMMA DecisionsPermit ==
    ASSUME FetchShape, NEW entry \in MemoryRow
    PROVE  \/ OffRequest(Decided(entry))
           \/ /\ Decided(entry) \in FetchRecord /\ Decided(entry).stage = "body"
              /\ Decided(entry).page = fetch.page
              /\ entry # Unknown => Permits(entry, fetch.page)
<1>1. CASE Decided(entry) = Begun("body")
  <2>1. entry # Unknown => Permits(entry, fetch.page) \/ entry.status \in Limiting
    BY <1>1, WaysOn DEF Decided, OffRequest, Permits, Advisory
  <2>2. entry.status \notin Limiting
    BY <1>1, WaysOn DEF Decided, OffRequest
  <2>3. QED
    BY <1>1, <2>1, <2>2, WaysOn
<1>2. CASE Decided(entry) # Begun("body")
  BY <1>2, WaysOn DEF Decided
<1>3. QED
  BY <1>1, <1>2

(* The rules are decided upon as they are remembered.                         *)
LEMMA DecidedKeeps ==
    ASSUME FetchInv, NEW entry \in MemoryRow, entry # Unknown,
           fetch' = Decided(entry), memory' \in [Origins -> MemoryRow], memory'[Origin] = entry,
           UNCHANGED <<pages, advisory>>, requests' \in Nat
    PROVE  FetchInv'
<1>1. FetchShape
  BY DEF FetchInv
<1>2. CASE OffRequest(fetch')
  BY <1>1, <1>2 DEF FetchInv, FetchShape, RulesHeld, OffRequest, FetchRecord
<1>3. CASE /\ fetch' \in FetchRecord /\ fetch'.stage = "body" /\ fetch'.page = fetch.page
           /\ Permits(entry, fetch.page)
  BY <1>1, <1>3 DEF FetchInv, FetchShape, RulesHeld, FetchRecord, Origin, Permits
<1>4. QED
  BY <1>1, <1>2, <1>3, DecisionsPermit

LEMMA AwayKeeps ==
    ASSUME FetchInv, OffRequest(fetch'), memory' \in [Origins -> MemoryRow],
           UNCHANGED <<pages, advisory>>, requests' \in Nat
    PROVE  FetchInv'
BY DEF FetchInv, FetchShape, RulesHeld, OffRequest, FetchRecord

(* An error leaves the rest of a request's step as it is, or decides without   *)
(* the rules.                                                               *)
LEMMA RaisedKeeps ==
    ASSUME FetchInv, NEW code, Raised(code), UNCHANGED <<pages, advisory>>, requests' \in Nat
    PROVE  /\ FetchInv'
           /\ \A o \in Origins : memory[o].status = "limited" => memory'[o].status = "limited"
<1>1. FetchShape /\ Origin \in Origins
  BY WaysOn DEF FetchInv
<1>2. CASE fetch.stage = "robots" /\ Advisory /\ code \in Forgiven
  <2>1. Known("deny") \in MemoryRow /\ Known("deny") # Unknown
    BY DEF Known, MemoryRow, Unknown
  <2>2. /\ memory' \in [Origins -> MemoryRow] /\ memory'[Origin] = Known("deny")
        /\ \A o \in Origins : o # Origin => memory'[o] = memory[o]
    BY <1>1, <1>2, <2>1 DEF Raised, FetchShape
  <2>3. memory[Origin].status # "limited"
    BY <1>2 DEF FetchInv, RulesHeld, Unknown
  <2>4. FetchInv'
    BY <1>2, <2>1, <2>2, DecidedKeeps DEF Raised
  <2>5. QED
    BY <2>2, <2>3, <2>4
<1>3. CASE ~(fetch.stage = "robots" /\ Advisory /\ code \in Forgiven)
  <2>1. memory' = memory /\ OffRequest(fetch')
    BY <1>1, <1>3, WaysOn DEF Raised
  <2>2. QED
    BY <1>1, <2>1, AwayKeeps DEF FetchShape
<1>4. QED
  BY <1>2, <1>3

(* A request that leads on: the page and what is remembered stay.             *)
LEMMA SamePageKeeps ==
    ASSUME FetchInv, fetch' \in FetchRecord, fetch'.page = fetch.page, fetch'.stage = fetch.stage,
           UNCHANGED <<pages, advisory, memory>>, requests' \in Nat
    PROVE  FetchInv'
BY DEF FetchInv, FetchShape, RulesHeld, FetchRecord, Origin, Permits

LEMMA RequestKeepsRules ==
    ASSUME FetchInv,
           CurveRejected \/ TimedOut \/ AnswerRefused \/ Redirected \/ TooManyRequests
           \/ RobotsAnswered \/ PageAnswered
    PROVE  FetchInv' /\ RulesKept
<1>1. FetchShape /\ Origin \in Origins
  BY WaysOn DEF FetchInv
<1>2. /\ fetch.stage \in {"robots", "body"} /\ ~Limited(fetch.hop)
      /\ requests' \in Nat /\ UNCHANGED <<pages, advisory>>
  <2>1. Requested
    BY DEF CurveRejected, TimedOut, AnswerRefused, Redirected, TooManyRequests, RobotsAnswered,
           PageAnswered
  <2>2. requests' = requests + 1 /\ requests \in Nat
    BY <1>1, <2>1 DEF Requested, FetchShape
  <2>3. QED
    BY <2>1, <2>2 DEF Requested, MayRequest
<1>3. SUFFICES /\ FetchInv'
               /\ \A o \in Origins :
                     memory[o].status = "limited" => memory'[o].status = "limited"
  BY <1>2 DEF RulesKept, FetchInv, RulesHeld
<1>4. ASSUME NEW code, Raised(code) PROVE FetchInv' /\ \A o \in Origins :
                     memory[o].status = "limited" => memory'[o].status = "limited"
  BY <1>2, <1>4, RaisedKeeps
<1>5. ASSUME UNCHANGED memory, \/ OffRequest(fetch')
                               \/ /\ fetch' \in FetchRecord /\ fetch'.page = fetch.page
                                  /\ fetch'.stage = fetch.stage
      PROVE  FetchInv' /\ \A o \in Origins :
                     memory[o].status = "limited" => memory'[o].status = "limited"
  BY <1>1, <1>2, <1>5, AwayKeeps, SamePageKeeps DEF FetchShape
<1>6. \A n \in {0, 1} : /\ Again(n) \in FetchRecord /\ Again(n).page = fetch.page
                        /\ Again(n).stage = fetch.stage
  BY <1>1 DEF Again, FetchShape, FetchRecord
<1>7. CASE CurveRejected
  BY <1>4, <1>5, <1>6, <1>7 DEF CurveRejected
<1>8. CASE TimedOut
  BY <1>4, <1>5, <1>6, <1>8 DEF TimedOut
<1>9. CASE AnswerRefused
  BY <1>4, <1>9 DEF AnswerRefused
<1>10. CASE Redirected
  <2>1. CASE fetch.redirects < RedirectMax
    <3>1. PICK o \in Origins :
              fetch' = [fetch EXCEPT !.hop = o, !.redirects = @ + 1, !.attempts = 0]
      BY <1>10, <2>1 DEF Redirected
    <3>2. PICK n \in Nat : n = fetch.redirects + 1
      BY <1>1 DEF FetchShape, FetchRecord
    <3>3. fetch' = [page |-> fetch.page, stage |-> fetch.stage, hop |-> o, attempts |-> 0,
                    redirects |-> n]
      BY <1>1, <3>1, <3>2 DEF FetchShape, FetchRecord
    <3>4. fetch' \in FetchRecord /\ fetch'.page = fetch.page /\ fetch'.stage = fetch.stage
      BY <1>1, <3>3 DEF FetchShape, FetchRecord
    <3>5. QED
      BY <1>5, <1>10, <2>1, <3>4 DEF Redirected
  <2>2. CASE ~(fetch.redirects < RedirectMax)
    BY <1>4, <1>10, <2>2 DEF Redirected
  <2>3. QED
    BY <2>1, <2>2
<1>11. CASE TooManyRequests
  <2>1. PICK status \in Limiting :
            memory' = [o \in Origins |->
                IF o = fetch.hop \/ (fetch.stage = "robots" /\ o = Origin)
                THEN Known(status) ELSE memory[o]]
    BY <1>11 DEF TooManyRequests
  <2>2. Known(status) \in MemoryRow
    BY DEF Known, MemoryRow
  <2>3. memory' \in [Origins -> MemoryRow]
    BY <1>1, <2>1, <2>2 DEF FetchShape
  <2>4. memory[fetch.hop].status # "limited"
    BY <1>2 DEF Limited, Limiting
  <2>5. fetch.stage = "robots" => memory[Origin].status # "limited"
    BY DEF FetchInv, RulesHeld, Unknown
  <2>6. \A o \in Origins : memory[o].status = "limited" => memory'[o] = memory[o]
    BY <2>1, <2>4, <2>5
  <2>7. OffRequest(fetch')
    BY <1>1, <1>11, WaysOn DEF TooManyRequests
  <2>8. QED
    BY <1>2, <2>3, <2>6, <2>7, AwayKeeps
<1>12. CASE RobotsAnswered
  <2>1. PICK entry \in RobotsAnswers :
            memory' = [memory EXCEPT ![Origin] = entry] /\ fetch' = Decided(entry)
    BY <1>12 DEF RobotsAnswered
  <2>2. entry \in MemoryRow /\ entry # Unknown
    <3>1. DOMAIN pages \subseteq Nat
      BY <1>1 DEF FetchShape
    <3>2. QED
      BY <3>1 DEF RobotsAnswers, MemoryRow, Known, Unknown
  <2>3. /\ memory' \in [Origins -> MemoryRow] /\ memory'[Origin] = entry
        /\ \A o \in Origins : o # Origin => memory'[o] = memory[o]
    BY <1>1, <2>1, <2>2 DEF FetchShape
  <2>4. memory[Origin].status # "limited"
    BY <1>12 DEF RobotsAnswered, FetchInv, RulesHeld, Unknown
  <2>5. FetchInv'
    BY <1>2, <2>1, <2>2, <2>3, DecidedKeeps
  <2>6. QED
    BY <2>3, <2>4, <2>5
<1>13. CASE PageAnswered
  <2>1. OffRequest([fetch EXCEPT !.stage = "complete"])
    BY <1>1 DEF FetchShape, FetchRecord, OffRequest, FetchStages
  <2>2. QED
    BY <1>1, <1>5, <1>13, <2>1, WaysOn DEF PageAnswered
<1>14. QED
  BY <1>7, <1>8, <1>9, <1>10, <1>11, <1>12, <1>13

LEMMA FetchStep == FetchInv /\ [FetchNext]_fetchVars => FetchInv' /\ RulesKept
<1> SUFFICES ASSUME FetchInv, [FetchNext]_fetchVars PROVE FetchInv' /\ RulesKept
  OBVIOUS
<1>1. FetchShape /\ Origin \in Origins
  BY WaysOn DEF FetchInv
<1>2. ASSUME requests' \in Nat, ~(requests' > requests),
             \A o \in Origins : memory[o].status = "limited" => memory'[o].status = "limited"
      PROVE  RulesKept
  BY <1>2 DEF RulesKept
<1>3. CASE CheckRobots
  <2>1. requests' = requests /\ memory' = memory /\ UNCHANGED <<pages, advisory>>
    BY <1>3 DEF CheckRobots
  <2>2. RulesKept
    BY <1>1, <1>2, <2>1 DEF FetchShape
  <2>3. FetchInv'
    <3>1. CASE memory[Origin] = Unknown
      <4>1. fetch' \in FetchRecord /\ fetch'.stage = "robots" /\ fetch'.page = fetch.page
        BY <1>1, <1>3, <3>1, WaysOn DEF CheckRobots
      <4>2. QED
        BY <1>1, <2>1, <3>1, <4>1 DEF FetchInv, FetchShape, RulesHeld, FetchRecord, Origin
    <3>2. CASE memory[Origin] # Unknown
      BY <1>1, <1>3, <2>1, <3>2, DecidedKeeps DEF CheckRobots, FetchShape
    <3>3. QED
      BY <3>1, <3>2
  <2>4. QED
    BY <2>2, <2>3
<1>4. CASE RequestRefused
  <2>1. requests' = requests /\ UNCHANGED <<pages, advisory>> /\ \E code : Raised(code)
    BY <1>4 DEF RequestRefused
  <2>2. QED
    BY <1>1, <1>2, <2>1, RaisedKeeps DEF FetchShape
<1>5. CASE \E o \in Origins : RetryTimeCame(o)
  <2>1. PICK o \in Origins : RetryTimeCame(o)
    BY <1>5
  <2>2. Unknown \in MemoryRow
    BY DEF Unknown, MemoryRow
  <2>3. /\ memory' \in [Origins -> MemoryRow]
        /\ memory'[o] = Unknown /\ memory[o].status = "waiting"
        /\ \A x \in Origins : x # o => memory'[x] = memory[x]
    BY <1>1, <2>1, <2>2 DEF RetryTimeCame, FetchShape
  <2>4. UNCHANGED <<pages, advisory, fetch, requests>>
    BY <2>1 DEF RetryTimeCame
  <2>5. fetch.stage = "body" => Origin # o
    BY <2>3 DEF FetchInv, RulesHeld, Permits, Limiting
  <2>6. RulesKept
    BY <1>1, <1>2, <2>3, <2>4 DEF FetchShape
  <2>7. FetchShape'
    BY <1>1, <2>3, <2>4 DEF FetchShape, FetchRecord
  <2>8. RulesHeld'
    BY <1>1, <2>3, <2>4, <2>5 DEF FetchInv, RulesHeld, Origin, Permits
  <2>9. QED
    BY <2>6, <2>7, <2>8 DEF FetchInv
<1>6. CASE NextFetcher
  <2>1. PICK forgotten \in SUBSET {o \in Origins : ~Limited(o)} : memory' = Handed(forgotten)
    BY <1>6 DEF NextFetcher
  <2>2. Unknown \in MemoryRow
    BY DEF Unknown, MemoryRow
  <2>3. /\ memory' \in [Origins -> MemoryRow]
        /\ \A o \in Origins : memory[o].status = "limited" => memory'[o] = memory[o]
    BY <1>1, <2>1, <2>2 DEF Handed, FetchShape, Limited, Limiting
  <2>4. requests' = 0 /\ UNCHANGED <<pages, advisory>> /\ OffRequest(fetch')
    <3>1. 1 \in DOMAIN pages
      BY <1>1 DEF FetchShape
    <3>2. QED
      BY <1>1, <1>6, <3>1 DEF NextFetcher, Arrived, OffRequest, FetchShape, FetchRecord, FetchStages
  <2>5. RulesKept
    BY <1>1, <1>2, <2>3, <2>4 DEF FetchShape
  <2>6. QED
    BY <2>3, <2>4, <2>5, AwayKeeps
<1>7. CASE UNCHANGED fetchVars
  <2>1. UNCHANGED <<pages, advisory, fetch, requests, memory>>
    BY <1>7 DEF fetchVars
  <2>2. QED
    BY <1>1, <1>2, <2>1, SamePageKeeps DEF FetchShape
<1>8. CASE CurveRejected \/ TimedOut \/ AnswerRefused \/ Redirected \/ TooManyRequests
           \/ RobotsAnswered \/ PageAnswered
  BY <1>8, RequestKeepsRules
<1>9. QED
  BY <1>3, <1>4, <1>5, <1>6, <1>7, <1>8 DEF FetchNext

LEMMA FetchBegins == FetchInit => FetchInv
<1> SUFFICES ASSUME FetchInit PROVE FetchInv
  OBVIOUS
<1>1. pages \in Seq(Origins) \ {<<>>} /\ 1 \in DOMAIN pages
  BY FetchAssumption DEF FetchInit
<1>2. fetch \in FetchRecord /\ fetch.stage = "check"
  BY <1>1 DEF FetchInit, Arrived, FetchRecord, FetchStages
<1>3. requests \in Nat /\ memory \in [Origins -> MemoryRow]
  BY DEF FetchInit, MemoryRow, Unknown
<1>4. QED
  BY <1>1, <1>2, <1>3 DEF FetchInv, FetchShape, RulesHeld

(* An origin that answered 429 is left alone until its time has come, by all    *)
(* pages, redirects and later fetchers of the job, and a page is asked for only  *)
(* if what is remembered of its origin allows it or does not bind.            *)
(* (_remember_rate_limit, _active_rate_limit, _robots_check)                  *)
THEOREM FetchKeepsRules == FetchSpec => OriginRulesKept
<1>1. FetchInv /\ [FetchNext]_fetchVars
        => [/\ requests' > requests => ~Limited(fetch.hop)
            /\ \A o \in Origins :
                  memory[o].status = "limited" => memory'[o].status = "limited"
            /\ requests' > requests /\ fetch.stage = "body" /\ fetch.redirects = 0 =>
                   LET entry == memory[Origin] IN
                   \/ entry.status = "allow"
                   \/ entry.status = "checked" /\ fetch.page \in entry.allowed
                   \/ Advisory /\ entry # Unknown]_fetchVars
  BY FetchStep DEF RulesKept, Permits, Advisory
<1>2. QED
  BY <1>1, FetchBegins, FetchStep, PTL DEF FetchSpec, OriginRulesKept
=============================================================================
