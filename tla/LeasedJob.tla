------------------------------ MODULE LeasedJob ------------------------------
(***************************************************************************)
(* What a table of leased tasks promises (ADR-0002: the database is the     *)
(* queue): a task is held by at most one worker, a worker that stays away   *)
(* loses it to another, and it is finished once, by the worker that holds   *)
(* it.  A task that is not guarded may be finished by any worker.           *)
(* SourceMonitoring, MockRefresh and InvestorAnalysis implement it.         *)
(***************************************************************************)
CONSTANTS Tasks, Holders, Nobody

VARIABLES
    phase,      \* [Tasks -> {"absent", "open", "closed"}]
    holding,    \* [Tasks -> SUBSET Holders]: one worker, or none
    guarded,    \* [Tasks -> BOOLEAN]: whether only the holder may finish it
    finisher    \* [Tasks -> Holders \cup {Nobody}]

leasedVars == <<phase, holding, guarded, finisher>>

LeasedInit ==
    /\ phase = [t \in Tasks |-> "absent"]
    /\ holding = [t \in Tasks |-> {}]
    /\ guarded = [t \in Tasks |-> TRUE]
    /\ finisher = [t \in Tasks |-> Nobody]

(* Tasks are entered in the table.                                          *)
Enter ==
    /\ UNCHANGED <<holding, finisher>>
    /\ phase' \in [Tasks -> {"absent", "open", "closed"}] /\ guarded' \in [Tasks -> BOOLEAN]
    /\ \A t \in Tasks :
          \/ phase[t] = "absent" /\ phase'[t] = "open"
          \/ phase'[t] = phase[t] /\ guarded'[t] = guarded[t]

(* A worker leases the task, also from one whose lease ran out.             *)
Take(t, h) ==
    /\ phase[t] = "open"
    /\ holding' = [holding EXCEPT ![t] = {h}]
    /\ UNCHANGED <<phase, guarded, finisher>>

(* The holder dies, or gives up.                                            *)
Abandon(t) ==
    /\ phase[t] = "open"
    /\ holding' = [holding EXCEPT ![t] = {}]
    /\ UNCHANGED <<phase, guarded, finisher>>

(* The task is finished by h; nobody holds it any more.                     *)
Finish(t, h) ==
    /\ phase[t] = "open"
    /\ guarded[t] => h \in holding[t]
    /\ phase' = [phase EXCEPT ![t] = "closed"]
    /\ holding' = [holding EXCEPT ![t] = {}]
    /\ finisher' = [finisher EXCEPT ![t] = h]
    /\ UNCHANGED guarded

LeasedNext ==
    \/ Enter
    \/ \E t \in Tasks :
          \/ Abandon(t)
          \/ \E h \in Holders : Take(t, h) \/ Finish(t, h)

LeasedSpec == LeasedInit /\ [][LeasedNext]_leasedVars
=============================================================================
