--------------------------- MODULE PersonalContent ---------------------------
(***************************************************************************)
(* What a member has seen and kept of one company (personal_features.py):    *)
(* receipts for the facts a page has shown, and saved reports.  The page is  *)
(* rendered from one answer and tells the server later which versions it     *)
(* has shown; facts change in between, and the member has several pages.     *)
(* A handler holds the lock of the user's row, so that each is one step.     *)
(*                                                                         *)
(* A version stands for the semantic hash of a fact, a report's content for  *)
(* its rendered text; the wording of both is left out.  Whether a fact is     *)
(* confirmed (display_kind) is no part of the hash: an association to review   *)
(* makes it unconfirmed, and its review confirms it, in the same version.     *)
(***************************************************************************)
EXTENDS Naturals, Sequences, FiniteSets

CONSTANTS
    Items,          \* shared facts of the company
    VersionMax,     \* bound: versions of a fact
    Tabs,           \* pages of the company that the member has open
    ReportKeys,     \* idempotency keys of report requests
    ReportLimit,    \* monthly_report_limit
    NoReport        \* no report

ASSUME ContentAssumption ==
    /\ VersionMax \in Nat /\ ReportLimit \in Nat /\ NoReport \notin Nat

VARIABLES
    item,       \* [Items -> [status, version, confirmed, allowed]]: confirmed, not disputed;
                \* allowed, its evidence may be shown
    tab,        \* [Tabs -> [Items -> version shown, 0 for none]]
    receipt,    \* [Items -> version in personal_event_view_receipts, 0 for none]
    viewed,     \* whether the member has a view state of the company
    report,     \* Seq of contents: personal_company_reports, each [Items -> how it is told]
    saved,      \* [ReportKeys -> the report answered for the key]
    reportUsage, \* usage rows of company_report
    shownEver,  \* history, [Items -> versions a page or an answer has shown]
    baseline,   \* history, [Items -> versions marked by the first view and not shown by it]
    passedOver  \* history, [Items -> versions marked by a view while they were unconfirmed]

historyVars == <<shownEver, baseline, passedOver>>
contentVars == <<item, tab, receipt, viewed, report, saved, reportUsage, historyVars>>

ItemVersions == 0 .. VersionMax
Nothing == [e \in Items |-> 0]

ContentInit ==
    /\ item = [e \in Items |-> [status |-> "absent", version |-> 0, confirmed |-> FALSE,
                              allowed |-> TRUE]]
    /\ tab = [t \in Tabs |-> Nothing]
    /\ receipt = Nothing /\ viewed = FALSE
    /\ report = <<>> /\ saved = [k \in ReportKeys |-> NoReport] /\ reportUsage = 0
    /\ shownEver = [e \in Items |-> {}] /\ baseline = [e \in Items |-> {}]
    /\ passedOver = [e \in Items |-> {}]

OnPage(e) == item[e].status = "published"
Confirmed(e) == OnPage(e) /\ item[e].confirmed
(* What a page lists as facts; an unconfirmed one is shown as a lead, without   *)
(* its version.                                                             *)
Page == [e \in Items |-> IF Confirmed(e) THEN item[e].version ELSE 0]
(* What a report tells: the facts, and as leads the unconfirmed ones whose     *)
(* evidence may be shown.                                                    *)
Visible == [e \in Items |->
    IF OnPage(e) /\ (item[e].confirmed \/ item[e].allowed)
    THEN [version |-> item[e].version, confirmed |-> item[e].confirmed]
    ELSE [version |-> 0, confirmed |-> FALSE]]

-----------------------------------------------------------------------------
(* The shared facts change: published, given other content, disputed and      *)
(* confirmed, retracted, or their sources withdraw and renew the permission    *)
(* to show them.                                                            *)
ChangeItem(e) ==
    /\ \/ /\ item[e].version < VersionMax
          /\ \E confirmed \in BOOLEAN :
                item' = [item EXCEPT ![e].status = "published", ![e].version = @ + 1,
                                     ![e].confirmed = confirmed]
       \/ /\ OnPage(e)
          /\ \/ item' = [item EXCEPT ![e].status = "retracted"]
             \/ item' = [item EXCEPT ![e].confirmed = ~@]
       \/ item' = [item EXCEPT ![e].allowed = ~@]
    /\ UNCHANGED <<tab, receipt, viewed, report, saved, reportUsage, historyVars>>

OpenTab(t) ==
    /\ tab' = [tab EXCEPT ![t] = Page]
    /\ shownEver' = [e \in Items |->
            IF Confirmed(e) THEN shownEver[e] \cup {item[e].version} ELSE shownEver[e]]
    /\ UNCHANGED <<item, receipt, viewed, report, saved, reportUsage, baseline, passedOver>>

-----------------------------------------------------------------------------
(* record_personal_company_view                                             *)

Unseen == {e \in Items : OnPage(e) /\ receipt[e] # item[e].version}

(* Mutant: what is seen is the version of now.                               *)
CurrentVersion(t, e) == item[e].version
(* The page confirms what it has shown, maybe nothing: of the facts that are   *)
(* unseen now.                                                              *)
ConfirmedVersion(t, e) == tab[t][e]
ConfirmTab(t) ==
    /\ receipt' = [e \in Items |->
            IF e \in Unseen /\ tab[t][e] # 0 THEN ConfirmedVersion(t, e) ELSE receipt[e]]
    /\ viewed' = TRUE
    /\ UNCHANGED <<item, tab, report, saved, reportUsage, historyVars>>

(* The versions of some facts are added to a history.                        *)
Adding(history, some) ==
    [e \in Items |-> IF e \in some THEN history[e] \cup {item[e].version} ELSE history[e]]

(* Without such a list the answer itself shows what is new, but only what is   *)
(* confirmed, and the first view only what is recent.  A receipt is written   *)
(* for every unseen fact all the same: for the history the first view leaves   *)
(* out, and in every view for what is unconfirmed.                           *)
ViewAnswer ==
    /\ receipt' = [e \in Items |-> IF e \in Unseen THEN item[e].version ELSE receipt[e]]
    /\ \E told \in SUBSET {e \in Unseen : Confirmed(e)} :
          /\ viewed => told = {e \in Unseen : Confirmed(e)}
          /\ shownEver' = Adding(shownEver, told)
          /\ baseline' = Adding(baseline, {e \in Unseen \ told : Confirmed(e)})
    /\ passedOver' = Adding(passedOver, {e \in Unseen : ~Confirmed(e)})
    /\ viewed' = TRUE
    /\ UNCHANGED <<item, tab, report, saved, reportUsage>>

-----------------------------------------------------------------------------
(* create_personal_company_report                                           *)

(* _safe_report_out: a source of the report has lost its permission.         *)
Restricted(content) == \E e \in Items : content[e].version # 0 /\ ~item[e].allowed

SameContent == {n \in DOMAIN report : report[n] = Visible}
Newest == {n \in SameContent : \A m \in SameContent : m <= n}

(* A key that was answered gets the same report; a content that was saved is *)
(* reused unless a new point in time is asked for.                           *)
ReuseReport(k) ==
    /\ saved[k] = NoReport
    /\ \E n \in Newest :
          /\ ~Restricted(report[n])
          /\ saved' = [saved EXCEPT ![k] = n]
    /\ UNCHANGED <<item, tab, receipt, viewed, report, reportUsage, historyVars>>

(* A new report, within the month's limit, unless its text may not be shown. *)
MayArchive(anew) == anew \/ SameContent = {}
SaveReport(k, anew) ==
    /\ saved[k] = NoReport
    /\ MayArchive(anew)
    /\ ~Restricted(Visible)
    /\ reportUsage < ReportLimit
    /\ report' = Append(report, Visible)
    /\ saved' = [saved EXCEPT ![k] = Len(report) + 1]
    /\ reportUsage' = reportUsage + 1
    /\ UNCHANGED <<item, tab, receipt, viewed, historyVars>>

ContentNext ==
    \/ \E e \in Items : ChangeItem(e)
    \/ \E t \in Tabs : OpenTab(t) \/ ConfirmTab(t)
    \/ ViewAnswer
    \/ \E k \in ReportKeys : ReuseReport(k) \/ \E anew \in BOOLEAN : SaveReport(k, anew)

ContentSpec == ContentInit /\ [][ContentNext]_contentVars

-----------------------------------------------------------------------------
ContentTypeOK ==
    /\ item \in [Items -> [status : {"absent", "published", "retracted"},
                           version : ItemVersions, confirmed : BOOLEAN, allowed : BOOLEAN]]
    /\ tab \in [Tabs -> [Items -> ItemVersions]]
    /\ receipt \in [Items -> ItemVersions] /\ viewed \in BOOLEAN
    /\ report \in Seq([Items -> [version : ItemVersions, confirmed : BOOLEAN]])
    /\ saved \in [ReportKeys -> {NoReport} \cup DOMAIN report]
    /\ reportUsage \in 0 .. ReportLimit

(* A change the member was never shown stays on the list of news: what counts *)
(* as seen was shown by some page or answer, however late a page confirms and *)
(* however often the fact changed in between.  Two kinds of fact are the        *)
(* exception: the history the first view leaves out, and what was unconfirmed  *)
(* when a view marked it: it is no news when it is confirmed afterwards.        *)
(* (record_personal_company_view, rendered_versions)                         *)
SeenWasShown ==
    \A e \in Items :
        OnPage(e) /\ e \notin Unseen =>
            item[e].version \in shownEver[e] \cup baseline[e] \cup passedOver[e]
=============================================================================
