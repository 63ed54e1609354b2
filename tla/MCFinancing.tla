---------------------------- MODULE MCFinancing ----------------------------
(***************************************************************************)
(* Model checking of financing reports: a curated record and a first report  *)
(* without a round, reports of the rounds A and B that agree with them in     *)
(* amount and investors, and a second report of A that differs.              *)
(***************************************************************************)
EXTENDS FinancingRecords

FinancingClaim(round, amount, investors, day) ==
    [scope |-> "legal_entity", round |-> round, amount |-> amount, investors |-> investors,
     day |-> day, occurred |-> Undisclosed, corrects |-> FALSE, several |-> FALSE]
MCClaimOf ==
    [c1 |-> FinancingClaim(Undisclosed, "10", {"i"}, 1),
     n1 |-> FinancingClaim(Undisclosed, "10", {"i"}, 1),
     n2 |-> FinancingClaim(Undisclosed, "10", {"i", "j"}, 2),
     a1 |-> FinancingClaim("A", "10", {"i", "j"}, 1),
     a2 |-> FinancingClaim("A", "20", {"i"}, 1),
     b1 |-> FinancingClaim("B", "10", {"i"}, 1)]
=============================================================================
