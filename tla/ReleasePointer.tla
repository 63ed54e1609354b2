-------------------------- MODULE ReleasePointer --------------------------
(***************************************************************************)
(* The switch of the "current" link (scripts/release_ops/current.py).         *)
(* prepare rehearses it before the entrance is opened, commit makes it once   *)
(* the public entrance was accepted, each under the lock of its attempt.      *)
(* Processes die between any two steps and leave what they have written.      *)
(***************************************************************************)
EXTENDS FiniteSets

CONSTANTS
    Switchers,     \* invocations of the tool
    Releasings,    \* approved attempts
    TargetOf,      \* [Releasings -> the release that the attempt may switch to]
    FirstRelease,  \* where current points to at the start
    NoReleasing, NoSwitcher

ASSUME PointerAssumption ==
    /\ DOMAIN TargetOf = Releasings /\ NoReleasing \notin Releasings /\ NoSwitcher \notin Switchers
    /\ \A a \in Releasings : TargetOf[a] # NoReleasing

ReleaseTargets == {FirstRelease} \cup {TargetOf[a] : a \in Releasings}

VARIABLES
    lockName,     \* the attempt that .release.lock names
    lockHolder,   \* the process that holds its flock
    reviewed,     \* [Releasings -> the release current must point to (expected_old)]
    prepared,     \* attempts with a saved prepared intent
    accepted,     \* attempts whose public evidence is complete
    current,      \* the release that current points to
    residue,      \* set of <<attempt, link>>: links left in the root
    switcher      \* [Switchers -> [step, attempt]]

pointerVars == <<lockName, lockHolder, reviewed, prepared, accepted, current, residue, switcher>>

Away == [step |-> "away"]
PointerInit ==
    /\ lockName = NoReleasing /\ lockHolder = NoSwitcher
    /\ reviewed \in [Releasings -> ReleaseTargets]
    /\ prepared = {} /\ accepted = {} /\ residue = {}
    /\ current = FirstRelease
    /\ switcher = [o \in Switchers |-> Away]

(* release_lock: nobody holds the flock, and the file names no other attempt; *)
(* the name stays when the flock is gone.                                    *)
Lock(o, a) ==
    /\ lockHolder = NoSwitcher /\ lockName \in {NoReleasing, a}
    /\ lockHolder' = o /\ lockName' = a
Unlock(o) ==
    /\ lockHolder' = NoSwitcher
    /\ switcher' = [switcher EXCEPT ![o] = Away]
    /\ UNCHANGED lockName
StepTo(o, step, a) == switcher' = [switcher EXCEPT ![o] = [step |-> step, attempt |-> a]]

(* prepare: both identities verified, current as reviewed, no residue of an    *)
(* earlier rehearsal; then the rehearsal on links of its own.                 *)
BeginPrepare(o, a) ==
    /\ switcher[o] = Away
    /\ Lock(o, a)
    /\ current = reviewed[a] /\ <<a, "probe">> \notin residue
    /\ residue' = residue \cup {<<a, "probe">>}
    /\ StepTo(o, "rehearses", a)
    /\ UNCHANGED <<reviewed, prepared, accepted, current>>

EndPrepare(o) ==
    /\ switcher[o].step = "rehearses"
    /\ residue' = residue \ {<<switcher[o].attempt, "probe">>}
    /\ prepared' = prepared \cup {switcher[o].attempt}
    /\ Unlock(o)
    /\ UNCHANGED <<reviewed, accepted, current>>

(* The public evidence of a prepared attempt, collected by hand.             *)
Accept(a) ==
    /\ a \in prepared \ accepted
    /\ accepted' = accepted \cup {a}
    /\ UNCHANGED <<lockName, lockHolder, reviewed, prepared, current, residue, switcher>>

(* commit checks the intent, the authorization and the evidence before it has *)
(* the lock.                                                                *)
AskCommit(o, a) ==
    /\ switcher[o] = Away
    /\ a \in prepared \cap accepted
    /\ StepTo(o, "asks", a)
    /\ UNCHANGED <<lockName, lockHolder, reviewed, prepared, accepted, current, residue>>

(* Mutant: current is not compared with what was reviewed.                   *)
SwitchAnyway(a) == TRUE
(* Under the lock: done when current is the target, refused when it is not     *)
(* what was prepared against; a link left by a commit that died is used.      *)
MaySwitch(a) == current = reviewed[a]
BeginCommit(o) ==
    /\ switcher[o].step = "asks"
    /\ LET a == switcher[o].attempt IN
       /\ Lock(o, a)
       /\ current # TargetOf[a] /\ MaySwitch(a)
       /\ residue' = residue \cup {<<a, "current">>}
       /\ StepTo(o, "links", a)
    /\ UNCHANGED <<reviewed, prepared, accepted, current>>

ReplaceLink(o) ==
    /\ switcher[o].step = "links"
    /\ <<switcher[o].attempt, "current">> \in residue
    /\ current' = TargetOf[switcher[o].attempt]
    /\ residue' = residue \ {<<switcher[o].attempt, "current">>}
    /\ StepTo(o, "replaced", switcher[o].attempt)
    /\ UNCHANGED <<lockName, lockHolder, reviewed, prepared, accepted>>

EndCommit(o) ==
    /\ switcher[o].step = "replaced"
    /\ Unlock(o)
    /\ UNCHANGED <<reviewed, prepared, accepted, current, residue>>

(* A process dies, or ends because it is refused.                            *)
SwitcherEnds(o) ==
    /\ switcher[o] # Away
    /\ switcher' = [switcher EXCEPT ![o] = Away]
    /\ lockHolder' = IF lockHolder = o THEN NoSwitcher ELSE lockHolder
    /\ UNCHANGED <<lockName, reviewed, prepared, accepted, current, residue>>

(* A refusal under the lock leaves its attempt's name in the file.           *)
NameLock(a) ==
    /\ lockHolder = NoSwitcher /\ lockName = NoReleasing
    /\ lockName' = a
    /\ UNCHANGED <<lockHolder, reviewed, prepared, accepted, current, residue, switcher>>

(* The person in charge archives the lock of an attempt, after looking that    *)
(* nobody holds it.                                                         *)
ArchiveName ==
    /\ lockHolder = NoSwitcher /\ lockName # NoReleasing
    /\ lockName' = NoReleasing
    /\ UNCHANGED <<lockHolder, reviewed, prepared, accepted, current, residue, switcher>>

PointerNext ==
    \/ \E o \in Switchers :
          \/ \E a \in Releasings : BeginPrepare(o, a) \/ AskCommit(o, a)
          \/ EndPrepare(o) \/ BeginCommit(o) \/ ReplaceLink(o) \/ EndCommit(o) \/ SwitcherEnds(o)
    \/ \E a \in Releasings : Accept(a) \/ NameLock(a)
    \/ ArchiveName

PointerSpec == PointerInit /\ [][PointerNext]_pointerVars

-----------------------------------------------------------------------------
PointerTypeOK ==
    /\ lockName \in Releasings \cup {NoReleasing} /\ lockHolder \in Switchers \cup {NoSwitcher}
    /\ reviewed \in [Releasings -> ReleaseTargets] /\ current \in ReleaseTargets
    /\ prepared \subseteq Releasings /\ accepted \subseteq prepared
    /\ residue \subseteq Releasings \X {"probe", "current"}
    /\ \A o \in Switchers : switcher[o].step \in {"away", "rehearses", "asks", "links", "replaced"}

(* Current is switched only by the attempt that the lock names, once the       *)
(* public entrance was accepted, and only away from the release it was         *)
(* reviewed and prepared against: no attempt undoes the switch of another     *)
(* that it has not seen, whatever died in between.  (prepare, commit)         *)
SwitchedAsPrepared ==
    [][current' # current =>
          /\ lockName \in accepted
          /\ current = reviewed[lockName] /\ current' = TargetOf[lockName]]_pointerVars
=============================================================================
