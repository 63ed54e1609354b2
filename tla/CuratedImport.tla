--------------------------- MODULE CuratedImport ---------------------------
(***************************************************************************)
(* The import of reviewed workbooks (curated_import.py): curators preview    *)
(* what a file would do to one company, approve that plan by its hash, and   *)
(* apply it under an advisory lock that all applications share.  The state   *)
(* follows one record of one company: what each curator has noted of it      *)
(* privately, and the version of it that all users see.                      *)
(*                                                                         *)
(* An application is two steps, the plan made anew under the lock, and the    *)
(* one transaction that writes and commits; retractions do not take the lock *)
(* and may fall between them.  The promotion reads the shared event without a *)
(* lock, and the session may hold it as the plan has read it: whether it sees  *)
(* such a retraction is left open.                                           *)
(***************************************************************************)
EXTENDS Naturals, FiniteSets

CONSTANTS
    Curators,      \* platform administrators that import
    Workbooks,     \* files with this record: file_hash and selection_key
    VersionIn,     \* [Workbooks -> versions]: event_fields of the record
    Reviewed,      \* the workbooks in which the record is confirmed
    NoVersion,     \* no event
    CuratedClockEnd

ASSUME CuratedAssumption ==
    /\ DOMAIN VersionIn = Workbooks /\ Reviewed \subseteq Workbooks
    /\ \A w \in Workbooks : VersionIn[w] # NoVersion
    /\ CuratedClockEnd \in Nat

VARIABLES
    fact,       \* the shared event: [status, version, confirmed (times of its evidence)]
    note,       \* [Curators -> the record of the latest observation of the private event]
    imported,   \* workbooks with a research_imports row (of the curators' tenant)
    binding,    \* the personal request that waits for an identity: [status, bound]
    curator,    \* [Curators -> [step, book, at, binds, plan]]
    curatedClock

curatedVars == <<fact, note, imported, binding, curator, curatedClock>>

RecordVersions == {VersionIn[w] : w \in Workbooks}
(* record_hash: the fields and whether they are confirmed.                   *)
RecordOf(w) == [version |-> VersionIn[w], confirmed |-> w \in Reviewed]
NoRecord == [version |-> NoVersion, confirmed |-> FALSE]
NotAtWork == [step |-> "rests"]

CuratedInit ==
    /\ fact = [status |-> "absent", version |-> NoVersion, confirmed |-> {}]
    /\ note = [c \in Curators |-> NoRecord]
    /\ imported = {}
    /\ binding = [status |-> "in_review", bound |-> FALSE]
    /\ curator = [c \in Curators |-> NotAtWork]
    /\ curatedClock = 0

(* _preview_curated_import for one record: the event is the shared one, or    *)
(* the curator's own; a retracted one, and one whose latest confirmation is   *)
(* later than this file's, is a conflict.                                    *)
Current(c) == IF fact.status = "absent" THEN note[c].version ELSE fact.version
Overtaken(at) == \E t \in fact.confirmed : t > at
RecordAction(c, w, at) ==
    CASE fact.status = "retracted"       -> "conflict"
      [] w \notin Reviewed               -> "unconfirmed"
      [] Current(c) = NoVersion          -> "create"
      [] Current(c) = VersionIn[w]       -> "reuse"
      [] Overtaken(at)                   -> "conflict"
      [] OTHER                           -> "correct"
MayBind == binding.status = "in_review" /\ ~binding.bound

(* The whole plan, which preview_hash stands for.                            *)
PlanFor(c, w, at, binds) ==
    [duplicate |-> w \in imported, action |-> RecordAction(c, w, at), current |-> Current(c),
     binding |-> IF binds THEN MayBind ELSE TRUE]

-----------------------------------------------------------------------------
(* preview_curated_import: it reads and locks nothing.  A plan that says the *)
(* file is imported, or the request cannot be bound, is not put forward: its  *)
(* application is refused.                                                   *)
Preview(c, w) ==
    /\ curator[c].step = "rests" /\ w \notin imported
    /\ \E at \in 0..curatedClock, binds \in {FALSE} \cup (IF MayBind THEN {TRUE} ELSE {}) :
          curator' = [curator EXCEPT ![c] =
              [step |-> "approves", book |-> w, at |-> at, binds |-> binds,
               plan |-> PlanFor(c, w, at, binds)]]
    /\ UNCHANGED <<fact, note, imported, binding, curatedClock>>

Applying == {c \in Curators : curator[c].step = "applies"}
(* Mutant: the approved plan is applied as it was.                           *)
PlanApproved(c) == curator[c].plan
PlanAnew(c) == PlanFor(c, curator[c].book, curator[c].at, curator[c].binds)

(* apply_curated_import up to its first write: the lock, the row of the       *)
(* request, and the plan anew, which must be the one that was approved.       *)
BeginApply(c) ==
    /\ curator[c].step = "approves"
    /\ Applying = {}
    /\ curator' = [curator EXCEPT ![c] =
          IF PlanAnew(c) = curator[c].plan THEN [@ EXCEPT !.step = "applies"] ELSE NotAtWork]
    /\ UNCHANGED <<fact, note, imported, binding, curatedClock>>

(* _store_record: nothing when the latest observation of the curator's own    *)
(* event is of this record; otherwise an observation, and, for a confirmed    *)
(* record, its promotion, which replaces the shared version.  A promotion that *)
(* sees the event retracted fails, and the application rolls back (GiveUp);    *)
(* one that does not writes the fields, and the status is as it was.          *)
Noted(c, w) == note[c] = RecordOf(w)
Promotes(c, w) == w \in Reviewed /\ ~Noted(c, w)
StoreRecord(c, w, at) ==
    /\ note' = [note EXCEPT ![c] = RecordOf(w)]
    /\ IF Promotes(c, w)
       THEN fact' = [status |-> IF fact.status = "absent" THEN "published" ELSE fact.status,
                     version |-> VersionIn[w], confirmed |-> fact.confirmed \cup {at}]
       ELSE UNCHANGED fact

CommitApply(c) ==
    /\ curator[c].step = "applies"
    /\ LET a == curator[c] IN
       /\ IF a.plan.action = "conflict" THEN UNCHANGED <<fact, note>>
          ELSE StoreRecord(c, a.book, a.at)
       /\ imported' = imported \cup {a.book}
       /\ binding' = [binding EXCEPT !.bound = @ \/ a.binds]
    /\ curator' = [curator EXCEPT ![c] = NotAtWork]
    /\ UNCHANGED curatedClock

(* The curator turns the plan down, or the application fails and rolls back. *)
GiveUp(c) ==
    /\ curator[c].step # "rests"
    /\ curator' = [curator EXCEPT ![c] = NotAtWork]
    /\ UNCHANGED <<fact, note, imported, binding, curatedClock>>

-----------------------------------------------------------------------------
(* retract_shared_event, by any administrator.                               *)
RetractFact ==
    /\ fact.status = "published"
    /\ fact' = [fact EXCEPT !.status = "retracted"]
    /\ UNCHANGED <<note, imported, binding, curator, curatedClock>>

(* The user cancels the request; its row is locked while an application binds *)
(* it.                                                                      *)
CancelBinding ==
    /\ binding.status = "in_review"
    /\ \A c \in Applying : ~curator[c].binds
    /\ binding' = [binding EXCEPT !.status = "cancelled"]
    /\ UNCHANGED <<fact, note, imported, curator, curatedClock>>

CuratedTick ==
    /\ curatedClock < CuratedClockEnd
    /\ curatedClock' = curatedClock + 1
    /\ UNCHANGED <<fact, note, imported, binding, curator>>

CuratedNext ==
    \/ \E c \in Curators :
          \/ \E w \in Workbooks : Preview(c, w)
          \/ BeginApply(c) \/ CommitApply(c) \/ GiveUp(c)
    \/ RetractFact \/ CancelBinding \/ CuratedTick

CuratedSpec == CuratedInit /\ [][CuratedNext]_curatedVars

-----------------------------------------------------------------------------
CuratedTypeOK ==
    /\ fact \in [status : {"absent", "published", "retracted"},
                 version : RecordVersions \cup {NoVersion},
                 confirmed : SUBSET (0..CuratedClockEnd)]
    /\ note \in [Curators -> [version : RecordVersions \cup {NoVersion}, confirmed : BOOLEAN]]
    /\ imported \subseteq Workbooks
    /\ binding \in [status : {"in_review", "cancelled"}, bound : BOOLEAN]
    /\ \A c \in Curators : curator[c].step \in {"rests", "approves", "applies"}
    /\ curatedClock \in 0..CuratedClockEnd

(* "A late import of an old file never overwrites a newer, confirmed version" *)
(* (curated_import.py:267, in Chinese): whatever curators preview and apply   *)
(* at the same time, a shared record that changes, changes to a version whose *)
(* confirmation is at least as late as all before it, and does so only to      *)
(* what a curator saw next to the version it replaces.  One that is retracted  *)
(* in between may change, and is not shown again by it.                      *)
(* (preview_curated_import, apply_curated_import, project_curated_observation) *)
NewestConfirmationShown ==
    [][fact'.version # fact.version =>
          /\ fact.status = "retracted" => fact'.status = "retracted"
          /\ \A t \in fact.confirmed : \E u \in fact'.confirmed : u >= t
          /\ \E c \in Applying :
                /\ curator[c].plan.current = Current(c)
                /\ \A t \in fact.confirmed : curator[c].at >= t]_curatedVars
=============================================================================
