---------------------------- MODULE BusinessCalls ----------------------------
(***************************************************************************)
(* A call of the read-only business interface (business_mcp.py, business     *)
(* _read.py): admitted to the audit, charged against the member's quota,     *)
(* queried in a thread of a small pool, checked once more and handed over    *)
(* only after the audit says so.  The caller gives up before the thread      *)
(* does: a timeout or a disconnect leaves the query running in its slot, and *)
(* its late end fills in what it cost.  One process; what invoke does        *)
(* between two awaits is one step.  The data that is read is left out.       *)
(***************************************************************************)
EXTENDS Naturals, FiniteSets, FiniteSetsExt

CONSTANTS
    Callers,        \* calls over time
    SlotMax,        \* queries at a time
    HttpMax,        \* calls admitted per window
    ChargeMax,      \* charged calls per window
    ReserveBytes,   \* max_bytes of an answer
    DayBytes,       \* bytes per window
    AuditWindow,    \* the day (the minute's limits are of the same form)
    AuditClockEnd   \* bound: the clock stops here

ASSUME CallAssumption ==
    /\ {SlotMax, ReserveBytes, AuditWindow} \subseteq Nat \ {0}
    /\ {HttpMax, ChargeMax, DayBytes, AuditClockEnd} \subseteq Nat
    /\ IsFiniteSet(Callers)

VARIABLES
    call,       \* [Callers -> [at, ...]]: where the request is
    audit,      \* [Callers -> row of the audit with what was charged]
    query,      \* [Callers -> where the thread of its query is]
    slots,      \* free slots
    delivered,  \* [Callers -> what the client was sent]
    unwritten,  \* calls whose abort the audit could not take
    granted,    \* whether the token and its grant are valid
    auditClock

callVars == <<call, audit, query, slots, delivered, unwritten, granted, auditClock>>

NoRow == [charged |-> FALSE, at |-> 0, outcome |-> "none", queried |-> "none", bytes |-> 0]

CallInit ==
    /\ call = [c \in Callers |-> [at |-> "absent", begun |-> 0]]
    /\ audit = [c \in Callers |-> NoRow]
    /\ query = [c \in Callers |-> "none"]
    /\ slots = SlotMax
    /\ delivered = [c \in Callers |-> "none"] /\ unwritten = {}
    /\ granted = TRUE /\ auditClock = 0

InWindow(time) == time + AuditWindow > auditClock
Admitted == {c \in Callers : call[c].at \notin {"absent", "refused"} /\ InWindow(call[c].begun)}
Charged == {c \in Callers : audit[c].charged /\ InWindow(audit[c].at)}
ChargedBytes == FoldSet(LAMBDA c, sum : sum + audit[c].bytes, 0, Charged)

GoTo(c, where) == call' = [call EXCEPT ![c].at = where]
Answered(c, what) == delivered' = [delivered EXCEPT ![c] = what]
(* finish: the outcome of the call, never what its query has cost.           *)
Finish(c, outcome) == audit' = [audit EXCEPT ![c].outcome = outcome]
(* The audit may be locked or full: the exception ends the call as an error.  *)
TryFinish(c, outcome) == Finish(c, outcome) \/ UNCHANGED audit

-----------------------------------------------------------------------------
(* begin_mcp: more calls than the audit holds are turned away uncounted.     *)
BeginCall(c) ==
    /\ call[c].at = "absent"
    /\ IF Cardinality(Admitted) < HttpMax
       THEN /\ call' = [call EXCEPT ![c] = [at |-> "begun", begun |-> auditClock]]
            /\ UNCHANGED delivered
       ELSE GoTo(c, "refused") /\ Answered(c, "error")
    /\ UNCHANGED <<audit, query, slots, unwritten, granted, auditClock>>

(* The token is checked by the library before the tool is called.            *)
RejectToken(c) ==
    /\ call[c].at = "begun" /\ ~granted
    /\ GoTo(c, "over") /\ Answered(c, "error")
    /\ UNCHANGED <<audit, query, slots, unwritten, granted, auditClock>>

WithinQuota ==
    /\ Cardinality(Charged) < ChargeMax
    /\ ChargedBytes + ReserveBytes <= DayBytes

(* No row: the quota cannot be read or written.                              *)
QuotaFails(c) ==
    /\ call[c].at = "begun" /\ granted
    /\ GoTo(c, "error")
    /\ UNCHANGED <<audit, query, slots, delivered, unwritten, granted, auditClock>>

(* invoke until its first await: quota, slot, thread.  What was charged      *)
(* stays charged when no slot is free; that it is denied may not be written. *)
InvokeTool(c) ==
    /\ call[c].at = "begun" /\ granted
    /\ \/ /\ WithinQuota
          /\ \E outcome \in {"denied", "reserved"} :
                /\ slots > 0 => outcome = "reserved"
                /\ audit' = [audit EXCEPT ![c] =
                      [NoRow EXCEPT !.charged = TRUE, !.at = auditClock, !.bytes = ReserveBytes,
                                    !.outcome = outcome]]
       \/ /\ ~WithinQuota
          /\ audit' = [audit EXCEPT ![c] = [NoRow EXCEPT !.at = auditClock, !.outcome = "denied"]]
    /\ IF WithinQuota /\ slots > 0
       THEN /\ query' = [query EXCEPT ![c] = "running"] /\ slots' = slots - 1
            /\ GoTo(c, "waiting")
       ELSE GoTo(c, "error") /\ UNCHANGED <<query, slots>>
    /\ UNCHANGED <<delivered, unwritten, granted, auditClock>>

(* Mutant: the end of the query is the outcome of the call.                  *)
QueryDecides(row, result, size) ==
    [row EXCEPT !.queried = result, !.bytes = size,
                !.outcome = IF result = "denied" THEN "denied" ELSE "prepared"]
(* The thread ends, whoever still waits for it: query_finish fills in what   *)
(* it found and how large it was, or fails to, and the slot is free again.   *)
QueryFinished(row, result, size) == [row EXCEPT !.queried = result, !.bytes = size]
EndQuery(c) ==
    /\ query[c] = "running"
    /\ \E result \in {"query_complete", "denied"}, size \in 0 .. ReserveBytes + 1 :
          /\ result = "query_complete" => granted /\ size <= ReserveBytes
          /\ result = "denied" => size \in {0, ReserveBytes + 1}    \* response_too_large
          /\ \/ audit' = [audit EXCEPT ![c] = QueryFinished(@, result, size)]
             \/ result = "denied" /\ UNCHANGED audit
          /\ query' = [query EXCEPT ![c] = result]
    /\ slots' = slots + 1
    /\ UNCHANGED <<call, delivered, unwritten, granted, auditClock>>

(* Mutant: the slot is given back when the caller leaves, not its query.     *)
TimeOutFreesSlot(c) ==
    /\ call[c].at = "waiting" /\ query[c] = "running"
    /\ Finish(c, "denied") /\ GoTo(c, "error")
    /\ slots' = slots + 1
    /\ UNCHANGED <<query, delivered, unwritten, granted, auditClock>>
(* The caller waits no longer (read_timeout).                                *)
TimeOut(c) ==
    /\ call[c].at = "waiting" /\ query[c] = "running"
    /\ TryFinish(c, "denied") /\ GoTo(c, "error")
    /\ UNCHANGED <<query, slots, delivered, unwritten, granted, auditClock>>

(* The result is there; the token is loaded once more before it is used.  An  *)
(* audit that does not take "prepared" makes it an error as well.            *)
CollectResult(c) ==
    /\ call[c].at = "waiting" /\ query[c] # "running"
    /\ \/ query[c] = "query_complete" /\ granted /\ Finish(c, "prepared") /\ GoTo(c, "prepared")
       \/ TryFinish(c, "denied") /\ GoTo(c, "error")
    /\ UNCHANGED <<query, slots, delivered, unwritten, granted, auditClock>>

(* audited_send: the outcome is written before the first byte is sent.       *)
WriteReturned(c) ==
    /\ call[c].at = "prepared"
    /\ Finish(c, "returned") /\ GoTo(c, "returning")
    /\ UNCHANGED <<query, slots, delivered, unwritten, granted, auditClock>>

SendAnswer(c) ==
    /\ call[c].at = "returning"
    /\ Answered(c, "answer") /\ GoTo(c, "over")
    /\ UNCHANGED <<audit, query, slots, unwritten, granted, auditClock>>

SendError(c) ==
    /\ call[c].at = "error"
    /\ Answered(c, "error") /\ GoTo(c, "over")
    /\ UNCHANGED <<audit, query, slots, unwritten, granted, auditClock>>

(* The client disconnects, or the audit fails before the first byte: the row  *)
(* is cancelled, and nothing, or an error (503), is sent.  That the audit      *)
(* does not take "cancelled" either is swallowed: the error is sent all the   *)
(* same, beside the row as it was.                                          *)
AbortCall(c) ==
    /\ call[c].at \in {"begun", "waiting", "prepared", "returning", "error"}
    /\ \/ audit[c].charged /\ Finish(c, "cancelled") /\ UNCHANGED unwritten
       \/ audit[c].charged /\ UNCHANGED audit /\ unwritten' = unwritten \union {c}
       \/ ~audit[c].charged /\ UNCHANGED <<audit, unwritten>>
    /\ \E what \in {"none", "error"} : Answered(c, what)
    /\ GoTo(c, "over")
    /\ UNCHANGED <<query, slots, granted, auditClock>>

ChangeToken ==
    /\ granted' = ~granted
    /\ UNCHANGED <<call, audit, query, slots, delivered, unwritten, auditClock>>

AuditTick ==
    /\ auditClock < AuditClockEnd
    /\ auditClock' = auditClock + 1
    /\ UNCHANGED <<call, audit, query, slots, delivered, unwritten, granted>>

CallNext ==
    \/ \E c \in Callers :
          \/ BeginCall(c) \/ RejectToken(c) \/ QuotaFails(c) \/ InvokeTool(c) \/ EndQuery(c)
          \/ TimeOut(c) \/ CollectResult(c) \/ WriteReturned(c) \/ SendAnswer(c)
          \/ SendError(c) \/ AbortCall(c)
    \/ ChangeToken \/ AuditTick

CallSpec == CallInit /\ [][CallNext]_callVars

-----------------------------------------------------------------------------
CallTypeOK ==
    /\ \A c \in Callers :
          /\ call[c].at \in {"absent", "refused", "begun", "waiting", "prepared", "returning",
                             "error", "over"}
          /\ audit[c].outcome \in {"none", "reserved", "prepared", "returned", "denied",
                                   "cancelled"}
          /\ query[c] \in {"none", "running", "query_complete", "denied"}
          /\ delivered[c] \in {"none", "answer", "error"}
    /\ slots \in 0 .. SlotMax /\ unwritten \subseteq Callers
    /\ granted \in BOOLEAN /\ auditClock \in 0 .. AuditClockEnd

(* What the audit says of a call is what the client was sent: an answer only  *)
(* with a returned row of a completed query, whatever writes failed, and       *)
(* never "prepared" or "returned" beside an error, whenever the query of a      *)
(* caller that is gone ends, unless the row could not be cancelled.           *)
(* (query_finish, finish, audited_send; mcp_control.py:258, business_mcp.py:220) *)
AuditTellsDelivery ==
    \A c \in Callers :
        /\ delivered[c] = "answer" =>
              audit[c].outcome = "returned" /\ audit[c].queried = "query_complete"
        /\ delivered[c] = "error" =>
              audit[c].outcome \notin {"prepared", "returned"} \/ c \in unwritten
=============================================================================
