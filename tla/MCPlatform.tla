---------------------------- MODULE MCPlatform ----------------------------
(***************************************************************************)
(* Model checking of what the platform publishes and serves, and of its      *)
(* releases.  A behaviour is one of one component, chosen at the start; the   *)
(* others stay in their initial states: the sizes of their instances add up.  *)
(***************************************************************************)
EXTENDS SourceFetch, Publication, CuratedImport, ReleaseOps, ReleasePointer, BusinessOAuth,
        BusinessCalls, PersonalContent, IdentityResearch, ResearchQueue, TenderRecords, TLC

CONSTANTS p1, p2

MCPageLists == {<<"a">>, <<"a", "b">>, <<"a", "a">>, <<"b", "a", "b">>}
MCFactOf == [l1 |-> "f", l2 |-> "f"]
MCLeadOf == [r1 |-> "l1", r2 |-> "l1", r3 |-> "l2"]
MCVersionIn == [w1 |-> "v1", w2 |-> "v2", w3 |-> "v1"]
MCTargetOf == [t1 |-> "A", t2 |-> "B", t3 |-> "R"]
MCSearchAnswers == {<<>>, <<"other", "match", "match">>}
MCTopicOf == <<1, 2, 1>>
MCTitleOf == <<"title", "other", "title">>
MCSubjectOf == [i \in 1 .. InquiryCount |-> "s"]
Notice(number, original, amount) ==
    [corrects |-> original # NotStated, number |-> number, original |-> original,
     lot |-> "A", amount |-> amount]
\* one project: its award, one holder's correction of it, and another's correction back
MCTextOf == <<Notice("1", NotStated, 1), Notice("2", "1", 2), Notice("3", "1", 1)>>
MCHolderOf == <<"h1", "h1", "h2">>

VARIABLE component

Init ==
    /\ component \in {"fetch", "publication", "curated", "release", "pointer", "oauth", "calls",
                      "content", "identity", "queue", "tender"}
    /\ FetchInit /\ PublicationInit /\ CuratedInit /\ ReleaseInit /\ PointerInit
    /\ OAuthInit /\ CallInit /\ ContentInit /\ IdentityInit /\ QueueInit /\ TenderInit
    /\ component # "fetch" => pages = <<"a">> /\ ~advisory
    /\ component # "publication" => ~autoPublish
    \* a small instance: reviews where nothing is published automatically
    /\ \A v \in Reviews : autoPublish <=> review[v].status = "rejected"
    \* small instances: a decision of an administrator, or a second request
    /\ (\E d \in Desks : desk[d] = DeskFree) <=> inquiry[1].status = "closed"
    /\ component # "identity" => inquiry[1].status = "absent"
    /\ component # "queue" => strategy = "topics"
    /\ component # "pointer" => reviewed = [t \in Releasings |-> FirstRelease]

(* One disjunct per component: its steps, and the others where they are.      *)
Next ==
    \/ component = "fetch" /\ FetchNext
       /\ UNCHANGED <<component, publicationVars, curatedVars, releaseVars, pointerVars, oauthVars,
                      callVars, contentVars, identityVars, queueVars, tenderVars>>
    \/ component = "publication" /\ PublicationNext
       /\ UNCHANGED <<component, fetchVars, curatedVars, releaseVars, pointerVars, oauthVars,
                      callVars, contentVars, identityVars, queueVars, tenderVars>>
    \/ component = "curated" /\ CuratedNext
       /\ UNCHANGED <<component, fetchVars, publicationVars, releaseVars, pointerVars, oauthVars,
                      callVars, contentVars, identityVars, queueVars, tenderVars>>
    \/ component = "release" /\ ReleaseNext
       /\ UNCHANGED <<component, fetchVars, publicationVars, curatedVars, pointerVars, oauthVars,
                      callVars, contentVars, identityVars, queueVars, tenderVars>>
    \/ component = "pointer" /\ PointerNext
       /\ UNCHANGED <<component, fetchVars, publicationVars, curatedVars, releaseVars, oauthVars,
                      callVars, contentVars, identityVars, queueVars, tenderVars>>
    \/ component = "oauth" /\ OAuthNext
       /\ UNCHANGED <<component, fetchVars, publicationVars, curatedVars, releaseVars, pointerVars,
                      callVars, contentVars, identityVars, queueVars, tenderVars>>
    \/ component = "calls" /\ CallNext
       /\ UNCHANGED <<component, fetchVars, publicationVars, curatedVars, releaseVars, pointerVars,
                      oauthVars, contentVars, identityVars, queueVars, tenderVars>>
    \/ component = "content" /\ ContentNext
       /\ UNCHANGED <<component, fetchVars, publicationVars, curatedVars, releaseVars, pointerVars,
                      oauthVars, callVars, identityVars, queueVars, tenderVars>>
    \/ component = "identity" /\ IdentityNext
       /\ UNCHANGED <<component, fetchVars, publicationVars, curatedVars, releaseVars, pointerVars,
                      oauthVars, callVars, contentVars, queueVars, tenderVars>>
    \/ component = "queue" /\ QueueNext
       /\ UNCHANGED <<component, fetchVars, publicationVars, curatedVars, releaseVars, pointerVars,
                      oauthVars, callVars, contentVars, identityVars, tenderVars>>
    \/ component = "tender" /\ TenderNext
       /\ UNCHANGED <<component, fetchVars, publicationVars, curatedVars, releaseVars, pointerVars,
                      oauthVars, callVars, contentVars, identityVars, queueVars>>

allVars == <<component, fetchVars, publicationVars, curatedVars, releaseVars, pointerVars,
             oauthVars, callVars, contentVars, identityVars, queueVars, tenderVars>>
Spec == Init /\ [][Next]_allVars

(* Of the component that runs; the others stay as their Init leaves them.     *)
TypeOK ==
    /\ component = "fetch" => FetchTypeOK
    /\ component = "publication" => PublicationTypeOK
    /\ component = "curated" => CuratedTypeOK
    /\ component = "release" => ReleaseTypeOK
    /\ component = "pointer" => PointerTypeOK
    /\ component = "oauth" => OAuthTypeOK
    /\ component = "calls" => CallTypeOK
    /\ component = "content" => ContentTypeOK
    /\ component = "identity" => IdentityTypeOK
    /\ component = "queue" => QueueTypeOK
    /\ component = "tender" => TenderTypeOK

Symmetry == Permutations({p1, p2})
=============================================================================
