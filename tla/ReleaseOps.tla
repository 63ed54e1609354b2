---------------------------- MODULE ReleaseOps ----------------------------
(***************************************************************************)
(* The release tool (scripts/release_ops, deploy/): operators of an approved *)
(* attempt observe the host, apply typed actions that start the application, *)
(* restore the database role, open the public entrance or isolate it all.     *)
(* The switch of the "current" link is in ReleasePointer.                     *)
(*                                                                         *)
(* Every invocation is a process of its own.  Evidence is read before the     *)
(* lock is taken; the lock is a flock, which dies with its process, over a    *)
(* file that names the attempt for good.  A process that dies (a lost         *)
(* connection, the bridge's time limit) may leave the command it was running *)
(* to finish on its own.                                                    *)
(***************************************************************************)
EXTENDS Naturals, Sequences, FiniteSets

CONSTANTS
    Operators,     \* invocations of the tool
    Attempts,      \* approved attempts
    TroubleMax,    \* bound on commands that fail and processes that die at work
    NoAttempt, NoOperator

ASSUME ReleaseAssumption ==
    /\ NoAttempt \notin Attempts /\ NoOperator \notin Operators
    /\ TroubleMax \in Nat

VARIABLES
    host,         \* [entrance, apps, role]: the proxy, what runs, the database role
    lockFile,     \* the attempt that .release.lock names
    flock,        \* the operator that holds it
    recent,       \* the gates that held at some time of the last 300 seconds
    rehearsed,    \* attempts with a prepare-current of the last 300 seconds
    opened,       \* attempts with an .opened-ATTEMPT.json
    operator,     \* [Operators -> [step, attempt, act, index, passed]]
    stray,        \* commands that outlived their process
    troubles,     \* how many commands failed and processes died
    isolated      \* history: an isolation is "underway" or has passed, "yes", and nothing
                  \* else was applied since

releaseVars == <<host, recent, rehearsed, lockFile, flock, opened, operator, stray, troubles, isolated>>
hostVars == <<host, recent>>

(* The gates that depend on what actions change (REQUIRED of actions.py);     *)
(* images, schema, configuration and job switches are frozen.                *)
Gates == {"role-readonly", "role-normal", "maintenance", "api-ready", "frontend-ready"}
Required == [start_api         |-> {"role-readonly", "maintenance"},
             start_frontend    |-> {"api-ready", "role-readonly", "maintenance"},
             restore_role      |-> {"api-ready", "frontend-ready", "maintenance"},
             open_normal_proxy |-> {"api-ready", "frontend-ready", "role-normal"},
             isolate           |-> {}]
Commands == [start_api         |-> <<"up api">>,
             start_frontend    |-> <<"up frontend">>,
             restore_role      |-> <<"restore role">>,
             open_normal_proxy |-> <<"config", "up normal proxy">>,
             isolate           |-> <<"up static proxy", "stop", "restrict", "verify">>]

Effect(h, command) ==
    CASE command = "up api"          -> [h EXCEPT !.apps = @ \cup {"api"}]
      [] command = "up frontend"     -> [h EXCEPT !.apps = @ \cup {"frontend"}]
      [] command = "restore role"    -> [h EXCEPT !.role = "normal"]
      [] command = "up normal proxy" -> [h EXCEPT !.entrance = "normal"]
      [] command = "up static proxy" -> [h EXCEPT !.entrance = "static"]
      [] command = "stop"            -> [h EXCEPT !.apps = {}]
      [] command = "restrict"        -> [h EXCEPT !.role = "readonly"]
      [] OTHER                       -> h

HoldIn(h) ==
    {gate \in Gates :
        \/ gate = "role-readonly" /\ h.role = "readonly"
        \/ gate = "role-normal" /\ h.role = "normal"
        \/ gate = "maintenance" /\ h.entrance = "static"
        \/ gate = "api-ready" /\ "api" \in h.apps
        \/ gate = "frontend-ready" /\ "frontend" \in h.apps}

IsolatedHost == [entrance |-> "static", apps |-> {}, role |-> "readonly"]
Off == [step |-> "off"]

ReleaseInit ==
    /\ host = IsolatedHost
    /\ lockFile = NoAttempt /\ flock = NoOperator
    /\ recent = HoldIn(IsolatedHost) /\ rehearsed = {} /\ troubles = 0 /\ opened = {} /\ stray = {}
    /\ operator = [o \in Operators |-> Off]
    /\ isolated = "no"

-----------------------------------------------------------------------------
(* Observation (observe-*, wait_ready, Recorder.check) takes no lock and may  *)
(* be made at any time; its evidence counts for 300 seconds, whatever has     *)
(* happened to the host since.                                               *)

Becomes(h) == host' = h /\ recent' = recent \cup HoldIn(h)

(* Actions ask for evidence and never for its absence: that all that is       *)
(* outdated lapses together loses no behaviour.                              *)
EvidenceAges ==
    /\ recent' = HoldIn(host) /\ rehearsed' = {}
    /\ UNCHANGED <<host, lockFile, flock, opened, operator, stray, troubles, isolated>>

(* A prepare-current that passed (ReleasePointer).                           *)
Rehearse(a) ==
    /\ flock = NoOperator /\ lockFile = a
    /\ rehearsed' = rehearsed \cup {a}
    /\ UNCHANGED <<hostVars, lockFile, flock, opened, operator, stray, troubles, isolated>>

-----------------------------------------------------------------------------
(* Mutant: the name of the attempt in the file is all that is looked at.      *)
LockNamesUs(a) == lockFile \in {NoAttempt, a}
(* release_lock: nobody holds the flock, and the file names no other attempt. *)
MayLock(a) == flock = NoOperator /\ lockFile \in {NoAttempt, a}
TakeLock(o, a) == MayLock(a) /\ flock' = o /\ lockFile' = a
LeaveLock(o) == flock' = NoOperator /\ UNCHANGED lockFile /\ operator' = [operator EXCEPT ![o] = Off]

(* authorize reads the evidence before apply_action takes the lock.           *)
AuthorizeAction(o, a, act) ==
    /\ operator[o] = Off
    /\ Required[act] \subseteq recent
    /\ act = "open_normal_proxy" => a \in rehearsed
    /\ operator' = [operator EXCEPT ![o] = [step |-> "authorized", attempt |-> a, act |-> act]]
    /\ UNCHANGED <<hostVars, rehearsed, lockFile, flock, opened, stray, troubles, isolated>>

(* The normal entrance is opened once: its mark is written, exclusively,      *)
(* before its commands run.                                                 *)
MayMark(o) == operator[o].act = "open_normal_proxy" => operator[o].attempt \notin opened
BeginAction(o) ==
    /\ operator[o].step = "authorized"
    /\ TakeLock(o, operator[o].attempt)
    /\ MayMark(o)
    /\ opened' = IF operator[o].act = "open_normal_proxy" THEN opened \cup {operator[o].attempt}
                 ELSE opened
    /\ operator' = [operator EXCEPT ![o] = [step |-> "runs", attempt |-> @.attempt, act |-> @.act,
                                            index |-> 1, passed |-> TRUE]]
    /\ isolated' = IF operator[o].act = "isolate" THEN "underway" ELSE "no"
    /\ UNCHANGED <<hostVars, rehearsed, stray, troubles>>

CommandOf(o) == Commands[operator[o].act][operator[o].index]

(* A command that passes has had its effect, one that fails or times out may  *)
(* have had it; verify passes when the role is read-only.  Only an isolation  *)
(* goes on after a failure.                                                 *)
RunCommand(o) ==
    /\ operator[o].step = "runs" /\ operator[o].index <= Len(Commands[operator[o].act])
    /\ \E passes, lands \in BOOLEAN :
          /\ troubles' = IF passes THEN troubles ELSE troubles + 1
          /\ troubles' <= TroubleMax
          /\ passes => lands /\ (CommandOf(o) = "verify" => host.role = "readonly")
          /\ Becomes(IF lands THEN Effect(host, CommandOf(o)) ELSE host)
          /\ operator' = [operator EXCEPT ![o].index =
                 IF passes \/ operator[o].act = "isolate" THEN @ + 1
                 ELSE Len(Commands[operator[o].act]) + 1,
                 ![o].passed = @ /\ passes]
    /\ UNCHANGED <<rehearsed, lockFile, flock, opened, stray, isolated>>

EndAction(o) ==
    /\ operator[o].step = "runs" /\ operator[o].index > Len(Commands[operator[o].act])
    /\ LeaveLock(o)
    /\ isolated' = IF isolated = "underway" /\ operator[o].passed THEN "yes" ELSE "no"
    /\ UNCHANGED <<hostVars, rehearsed, opened, stray, troubles>>

-----------------------------------------------------------------------------
(* A process finds the lock held or the mark written, or dies.  The mark is    *)
(* tried under the lock, which then names its attempt.                        *)
GiveUpStep(o) ==
    /\ operator[o].step = "authorized"
    /\ operator' = [operator EXCEPT ![o] = Off]
    /\ lockFile' \in {lockFile} \cup
          (IF MayLock(operator[o].attempt) /\ ~MayMark(o) THEN {operator[o].attempt} ELSE {})
    /\ UNCHANGED <<hostVars, rehearsed, flock, opened, stray, troubles, isolated>>

Left(o) == IF operator[o].step = "runs" /\ operator[o].index <= Len(Commands[operator[o].act])
           THEN {CommandOf(o)} ELSE {}
OperatorDies(o) ==
    /\ flock = o /\ troubles < TroubleMax
    /\ LeaveLock(o)
    /\ stray' \in {stray, stray \cup Left(o)}
    /\ troubles' = troubles + 1
    /\ UNCHANGED <<hostVars, rehearsed, opened, isolated>>

StrayLands ==
    /\ \E command \in stray :
          /\ Becomes(Effect(host, command))
          /\ stray' = stray \ {command}
    /\ isolated' = "no"
    /\ UNCHANGED <<rehearsed, lockFile, flock, opened, operator, troubles>>

(* The person in charge archives the lock of an ended attempt.               *)
ArchiveLock ==
    /\ flock = NoOperator /\ lockFile # NoAttempt
    /\ lockFile' = NoAttempt
    /\ UNCHANGED <<hostVars, rehearsed, flock, opened, operator, stray, troubles, isolated>>

ReleaseNext ==
    \/ \E a \in Attempts : Rehearse(a)
    \/ \E o \in Operators :
          \/ \E a \in Attempts, act \in DOMAIN Required : AuthorizeAction(o, a, act)
          \/ BeginAction(o) \/ RunCommand(o) \/ EndAction(o)
          \/ GiveUpStep(o) \/ OperatorDies(o)
    \/ EvidenceAges \/ StrayLands \/ ArchiveLock

ReleaseSpec == ReleaseInit /\ [][ReleaseNext]_releaseVars

-----------------------------------------------------------------------------
ReleaseTypeOK ==
    /\ host \in [entrance : {"static", "normal"}, apps : SUBSET {"api", "frontend"},
                 role : {"readonly", "normal"}]
    /\ lockFile \in Attempts \cup {NoAttempt} /\ flock \in Operators \cup {NoOperator}
    /\ HoldIn(host) \subseteq recent /\ recent \subseteq Gates /\ rehearsed \subseteq Attempts
    /\ troubles \in 0..TroubleMax /\ opened \subseteq Attempts
    /\ isolated \in {"no", "underway", "yes"}

(* After an isolation that passed, and until something else is applied or a    *)
(* command of a dead process lands, the entrance is static, nothing runs and  *)
(* the role is read-only, whatever other operators had authorized before.     *)
(* (apply_action with isolate under release_lock)                            *)
IsolationHolds == isolated = "yes" => host = IsolatedHost
=============================================================================
