------------------------ MODULE MCWebResearchBudget ------------------------
(* Small instances of the ledger: task t1 of company c1 with two keys, task *)
(* t2 of company c2 with one, and one legacy row that no company owns.      *)
EXTENDS WebResearchBudget, TLC

CONSTANTS w1, w2, k1, k2, k3, old

MCCallers == {w1, w2}
MCKeys == {k1, k2, k3}
MCLegacyKeys == {old}
MCTaskOf == (k1 :> "t1") @@ (k2 :> "t1") @@ (k3 :> "t2")
MCSubjectOf == (k1 :> "c1") @@ (k2 :> "c1") @@ (k3 :> "c2") @@ (old :> NoSubject)
CallerSymmetry == Permutations(MCCallers)

(* A week starts every second day, a month every second or every third.     *)
EverySecondDay == [d \in 0 .. MaxDay |-> d - (d % 2)]
EveryThirdDay == [d \in 0 .. MaxDay |-> d - (d % 3)]

(* Calls: three searches, each reserved as one request, all of them free.   *)
AllSearches == [k \in MCKeys |-> Search]
OneRequest == [k \in MCKeys |-> {1}]
Free == [k \in MCKeys |-> 0]

(* Money: a search of price 1, a search without a quoted price and a fetch, *)
(* which reserves up to two requests.                                       *)
SearchesAndFetch == (k1 :> Search) @@ (k2 :> "evidence_fetch") @@ (k3 :> Search)
MixedRequests == (k1 :> {1}) @@ (k2 :> {2}) @@ (k3 :> {1})
MixedPrices == (k1 :> 2) @@ (k2 :> 1) @@ (k3 :> None)
=============================================================================
