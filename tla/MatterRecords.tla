--------------------------- MODULE MatterRecords ---------------------------
(***************************************************************************)
(* Matters found in the texts of one company (research_matter_storage.py,    *)
(* matter_comparison.py, fact_support.py): a passage of a document, as the    *)
(* current version of the processing reads it, is added to the one event it   *)
(* belongs to or begins one; a ledger says which evidence supports which of   *)
(* the facts that an event shows.                                           *)
(*                                                                         *)
(* A passage is recorded in one transaction under a lock of the company.  An  *)
(* operator who withdraws evidence or retracts an event does not wait for it, *)
(* and a new release of the platform reads old passages in another way.      *)
(***************************************************************************)
EXTENDS Naturals, Sequences, FiniteSets

CONSTANTS
    Passages,       \* passages found in documents, one matter each
    Baselines,      \* facts that a curator confirmed before
    QuoteOf,        \* [Passages \cup Baselines -> text]
    ReadingOf,      \* [texts -> Seq of readings, one per version of the processing]
    Recorders,      \* sessions of workers
    Unstated,       \* a field the text does not state
    StrikeMax       \* bound: withdrawals and retractions

ReleasedVersions == 1 .. 2
FieldNames == {"round", "day", "amount", "investors"}

(* valid: the validation of subject, action and fields has accepted it.        *)
ASSUME MatterAssumption ==
    /\ IsFiniteSet(Baselines)
    /\ \A p \in Passages \cup Baselines : \A v \in ReleasedVersions :
          DOMAIN ReadingOf[QuoteOf[p]][v] =
              {"valid", "subject", "scope", "subtype", "status", "id", "stage", "phase"} \cup FieldNames

VARIABLES
    matters,    \* Seq of events, see NewMatter
    processing, \* the version of the processing that is deployed
    recorder,   \* [Recorders -> the step of a transaction]
    struck      \* history: passages withdrawn, or of a retracted event

matterVars == <<matters, processing, recorder, struck>>

Reading(p, v) == ReadingOf[QuoteOf[p]][v]
Evidence(p, v) == [passage |-> p, version |-> v, displayed |-> TRUE, rewritten |-> FALSE]
NewMatter(kind, p, v) ==
    [kind |-> kind, status |-> IF kind = "curated" THEN "published" ELSE "candidate",
     founder |-> [passage |-> p, version |-> v], evidence |-> {Evidence(p, v)},
     observed |-> {<<p, v>>}, ledger |-> {}]
RecorderFree == [step |-> "idle"]

MatterInit ==
    /\ \E order \in [1 .. Cardinality(Baselines) -> Baselines] :
          /\ \A b \in Baselines : \E i \in DOMAIN order : order[i] = b
          /\ matters = [i \in DOMAIN order |-> NewMatter("curated", order[i], 1)]
    /\ processing = 1
    /\ recorder = [w \in Recorders |-> RecorderFree]
    /\ struck = {}

-----------------------------------------------------------------------------
(* Comparing two readings (compare_matters)                                  *)

SameValue(l, r, field) == l[field] # Unstated /\ l[field] = r[field]
Differs(l, r, field) == l[field] # Unstated /\ r[field] # Unstated /\ l[field] # r[field]

Denial(l, r) == "denied" \in {l.status, r.status}
SameDetails(l, r) ==
    \/ SameValue(l, r, "day") /\ SameValue(l, r, "investors")
    \/ SameValue(l, r, "round") /\ SameValue(l, r, "amount")
       /\ (SameValue(l, r, "day") \/ SameValue(l, r, "investors"))

(* Texts and readings; equal texts need no other sign of identity.            *)
Identified(p, q, l, r) ==
    QuoteOf[p] = QuoteOf[q] \/ SameValue(l, r, "id") \/ SameDetails(l, r)

(* What tells two matters apart for certain, or one stage from another.       *)
Incompatible(p, q, l, r) ==
    \/ l.subject # r.subject
    \/ /\ l.scope = r.scope
       /\ \/ Differs(l, r, "id")
          \/ SameValue(l, r, "id") /\ l.status # r.status /\ ~Denial(l, r)
          \/ l.subtype # r.subtype
          \/ ~SameValue(l, r, "id") /\ (Differs(l, r, "round") \/ Differs(l, r, "day"))
          \/ Differs(l, r, "stage")
          \/ Identified(p, q, l, r) /\ Differs(l, r, "phase") /\ ~Denial(l, r)

(* A denial and other values of a field are kept beside the same matter.      *)
SameMatter(p, q, l, r) ==
    /\ l.subject = r.subject /\ l.scope = r.scope
    /\ Identified(p, q, l, r)
    /\ ~Incompatible(p, q, l, r)

-----------------------------------------------------------------------------
(* Which event a passage belongs to (persist_matters)                        *)

OpenMatter(e) == matters[e].status # "retracted"
Shown(event) == {row \in event.evidence : row.displayed}
(* Mutant: only evidence taken out of display is remembered.                  *)
SuppressedIfHidden(p) ==
    \E e \in DOMAIN matters : \E row \in matters[e].evidence :
        row.passage = p /\ ~row.displayed
(* What was withdrawn or retracted is not restored by reading it again.       *)
Suppressed(p) ==
    \E e \in DOMAIN matters : \E row \in matters[e].evidence :
        row.passage = p /\ (~row.displayed \/ ~OpenMatter(e))

Repeated(p, v) == \E e \in DOMAIN matters : <<p, v>> \in matters[e].observed

(* Each displayed piece of evidence is compared, as it was read last.          *)
Joinable(p, v) ==
    {e \in DOMAIN matters :
        /\ OpenMatter(e)
        /\ \E row \in Shown(matters[e]) :
              SameMatter(row.passage, p, Reading(row.passage, row.version), Reading(p, v))
        /\ \A row \in Shown(matters[e]) :
              ~Incompatible(row.passage, p, Reading(row.passage, row.version), Reading(p, v))}

Fingerprint(p, v) == LET r == Reading(p, v) IN <<p, r.scope, r.subtype, r.status, r.day>>
SameFingerprint(p, v) ==
    {e \in DOMAIN matters :
        /\ matters[e].kind = "matter"
        /\ Fingerprint(matters[e].founder.passage, matters[e].founder.version) = Fingerprint(p, v)}

(* A fact is the value of a field; what a denial quotes is not a fact.         *)
Claims(r) ==
    IF r.status = "denied" THEN {}
    ELSE {<<field, r[field]>> : field \in {f \in FieldNames : r[f] # Unstated}}
Disputes(r, fact) ==
    r.status = "denied" \/ (r[fact[1]] # Unstated /\ r[fact[1]] # fact[2])
ClaimsShown(event) == UNION {Claims(Reading(row.passage, row.version)) : row \in Shown(event)}

(* Each fact is assessed against each piece of evidence as it now reads.       *)
FactsOf(event) ==
    Claims(Reading(event.founder.passage, event.founder.version)) \cup ClaimsShown(event)
Assess(facts, rows) ==
    {[fact |-> fact, passage |-> row.passage, version |-> row.version] :
        fact \in facts, row \in rows}
(* Mutant: only the evidence just added is assessed.                          *)
MaterializeNew(event, p) ==
    [event EXCEPT !.ledger =
        {a \in @ : a.passage # p}
        \cup Assess(FactsOf(event), {row \in event.evidence : row.passage = p})]
Materialize(event, p) ==
    [event EXCEPT !.ledger =
        {a \in @ : a.fact \notin FactsOf(event)} \cup Assess(FactsOf(event), event.evidence)]

(* One piece of evidence per passage and event: a new reading rewrites it.     *)
Attach(event, p, v) ==
    LET old == {row \in event.evidence : row.passage = p} IN
    [event EXCEPT
        !.evidence = (@ \ old) \cup
            (IF old = {} THEN {Evidence(p, v)}
             ELSE {[row EXCEPT !.version = v, !.rewritten = TRUE] : row \in old}),
        !.observed = @ \cup {<<p, v>>}]
Ledgered(event, p) == IF event.kind = "matter" THEN Materialize(event, p) ELSE event

RecordingFree == \A w \in Recorders : recorder[w] = RecorderFree

(* The lock is taken, the events and the history of the passage are read.      *)
ReadMatters(w, p) ==
    LET v == processing
        joins == Joinable(p, v)
        same == SameFingerprint(p, v)
    IN
    /\ RecordingFree
    /\ Reading(p, v).valid
    /\ ~Suppressed(p) /\ ~Repeated(p, v)
    /\ Cardinality(joins) # 1 => \A e \in same : OpenMatter(e)
    /\ recorder' = [recorder EXCEPT ![w] =
          [step |-> "recording", passage |-> p, version |-> v, known |-> p \in struck,
           event |-> IF Cardinality(joins) = 1 THEN CHOOSE e \in joins : TRUE
                     ELSE IF same # {} THEN CHOOSE e \in same : TRUE ELSE 0]]
    /\ UNCHANGED <<matters, processing, struck>>

RecordMatter(w) ==
    LET work == recorder[w] IN
    /\ work.step = "recording"
    /\ matters' =
          IF work.event = 0
          THEN Append(matters,
                      Ledgered(NewMatter("matter", work.passage, work.version), work.passage))
          ELSE [matters EXCEPT ![work.event] =
                   Ledgered(Attach(@, work.passage, work.version), work.passage)]
    /\ recorder' = [recorder EXCEPT ![w] = RecorderFree]
    /\ UNCHANGED <<processing, struck>>

LoseRecording(w) ==
    /\ recorder[w].step = "recording"
    /\ recorder' = [recorder EXCEPT ![w] = RecorderFree]
    /\ UNCHANGED <<matters, processing, struck>>

StrikeEvidence(e, p) ==
    /\ Cardinality(struck) < StrikeMax
    /\ \E row \in Shown(matters[e]) :
          /\ row.passage = p
          /\ matters' = [matters EXCEPT ![e].evidence =
                            (@ \ {row}) \cup {[row EXCEPT !.displayed = FALSE]}]
    /\ struck' = struck \cup {p}
    /\ UNCHANGED <<processing, recorder>>

RetractMatter(e) ==
    /\ OpenMatter(e) /\ Cardinality(struck) < StrikeMax
    /\ matters' = [matters EXCEPT ![e].status = "retracted"]
    /\ struck' = struck \cup {row.passage : row \in matters[e].evidence}
    /\ UNCHANGED <<processing, recorder>>

Upgrade ==
    /\ processing + 1 \in ReleasedVersions
    /\ processing' = processing + 1
    /\ UNCHANGED <<matters, recorder, struck>>

MatterNext ==
    \/ \E w \in Recorders :
          \/ \E p \in Passages : ReadMatters(w, p)
          \/ RecordMatter(w) \/ LoseRecording(w)
    \/ \E e \in DOMAIN matters :
          \/ \E p \in Passages \cup Baselines : StrikeEvidence(e, p)
          \/ RetractMatter(e)
    \/ Upgrade

MatterSpec == MatterInit /\ [][MatterNext]_matterVars

-----------------------------------------------------------------------------
(* What an event shows as supported facts (services._event_out): the           *)
(* assessment of evidence that was rewritten since is ignored.               *)
Valid(event, fact) ==
    {a \in event.ledger :
        a.fact = fact /\ \E row \in Shown(event) : row.passage = a.passage /\ row.version = a.version}
FactsShown(event) ==
    {fact \in ClaimsShown(event) :
        /\ \E a \in Valid(event, fact) : fact \in Claims(Reading(a.passage, a.version))
        /\ \A a \in Valid(event, fact) : ~Disputes(Reading(a.passage, a.version), fact)}

MatterTypeOK ==
    /\ \A e \in DOMAIN matters :
          /\ matters[e].kind \in {"curated", "matter"}
          /\ matters[e].status \in {"candidate", "published", "retracted"}
          /\ \A row \in matters[e].evidence :
                /\ row.passage \in Passages \cup Baselines /\ row.version \in ReleasedVersions
                /\ row.displayed \in BOOLEAN /\ row.rewritten \in BOOLEAN
          /\ \A a \in matters[e].ledger :
                \E row \in matters[e].evidence : row.passage = a.passage
    /\ processing \in ReleasedVersions
    /\ \A w \in Recorders : recorder[w].step \in {"idle", "recording"}
    /\ struck \subseteq Passages \cup Baselines

(* The evidence of an event agrees that it is one matter, however the passages *)
(* are read by later releases and whatever is withdrawn between; and the facts *)
(* shown of an event are what its displayed evidence says and none of it       *)
(* disputes.  The exception is the passage an event began with: read again     *)
(* with another round or identity but the same day, it finds its event by the  *)
(* fingerprint and not by comparison.  (persist_matters,                     *)
(* materialize_event_fact_ledger, _event_out)                              *)
MattersHoldTogether ==
    \A e \in DOMAIN matters : OpenMatter(e) =>
        /\ (\A row \in matters[e].evidence :
               row.passage = matters[e].founder.passage => ~row.rewritten) =>
           \A r, s \in Shown(matters[e]) : r # s =>
               ~Incompatible(r.passage, s.passage,
                             Reading(r.passage, r.version), Reading(s.passage, s.version))
        /\ matters[e].kind = "matter" =>
           FactsShown(matters[e]) =
               {fact \in ClaimsShown(matters[e]) :
                   \A row \in Shown(matters[e]) :
                       ~Disputes(Reading(row.passage, row.version), fact)}

UsablePassages ==
    {p \in Passages : \E e \in DOMAIN matters :
        OpenMatter(e) /\ \E row \in Shown(matters[e]) : row.passage = p}

(* A passage that was withdrawn, or whose event was retracted, is never again   *)
(* shown as evidence because a later release reads it in another way; only a   *)
(* session that had read it before may still record it.                      *)
(* (persist_matters: "先查历史，不因撤证、撤回或算法升级恢复已撤销的材料")                          *)
NotRevived ==
    [][\A p \in struck : p \in UsablePassages' \ UsablePassages =>
          \E w \in Recorders :
              recorder[w].step = "recording" /\ recorder[w].passage = p /\ ~recorder[w].known]_matterVars
=============================================================================
