----------------------------- MODULE MCMatters -----------------------------
(***************************************************************************)
(* Model checking of matters: a financing that a curator has confirmed, two   *)
(* reports of it that differ in the amount, and a report of another round.    *)
(* The next release reads another round, another day and a denial in them.    *)
(***************************************************************************)
EXTENDS MatterRecords

MatterReading(status, id, round, day, amount) ==
    [valid |-> TRUE, subject |-> "s", scope |-> "legal_entity", subtype |-> "company_financing",
     status |-> status, id |-> id, stage |-> Unstated, phase |-> Unstated,
     round |-> round, day |-> day, amount |-> amount, investors |-> "i"]
MCQuoteOf == [b |-> "base", q1 |-> "first", q2 |-> "second", q3 |-> "third"]
MCReadingOf ==
    [base |-> <<MatterReading("reported", Unstated, "A", 1, Unstated),
                MatterReading("reported", Unstated, "A", 1, Unstated)>>,
     first |-> <<MatterReading("reported", Unstated, "A", 1, 10),
                 MatterReading("reported", Unstated, "B", 1, 10)>>,
     second |-> <<MatterReading("reported", Unstated, Unstated, 1, 20),
                  MatterReading("reported", Unstated, "A", 2, 20)>>,
     third |-> <<MatterReading("reported", Unstated, "B", 1, Unstated),
                 MatterReading("denied", Unstated, "A", 1, Unstated)>>]
=============================================================================
