-------------------------- MODULE MCWebResearchJob --------------------------
(* Small instances of WebResearchJob.                                       *)
EXTENDS WebResearchJob, TLC

CONSTANTS w1, r1, r2

OneWorker == {w1}
OneRequest == {r1}
TwoRequests == {r1, r2}

Sym == Permutations(Requests) \cup Permutations(Workers)
=============================================================================
