------------------------------ MODULE MCConsole ------------------------------
(* The pages on small instances.                                             *)
EXTENDS Console, TLC

MCCatalogue == [d1 |-> {"e1"}, d2 |-> {"e2"}, d3 |-> {}]
MCInitialParties == {[name |-> "n0", note |-> "d1", aka |-> {}]}
MCInitialHooks == [i1 |-> "u1"]
MCInitialRow == [general |-> "g", flows |-> "g"]
MCInitialProviders == [a |-> "s1"]
MCInitialServer == [host |-> "h", auth |-> TRUE, password |-> "p1"]
MCInitialStatuses == [p |-> "pending", q |-> "signed"]
MCTypesOf ==
    [m \in BOOLEAN |-> IF m THEN [first |-> "framework", all |-> {"framework", "dataspace"}]
                       ELSE [first |-> "terms", all |-> {"terms", "accession"}]]
MCInitialWallet == [c |-> "none", d |-> "issued"]
\* The files, mappers and agreements of a page are all alike.
Alike == Permutations(Files) \cup Permutations(PresetAttributes) \cup Permutations(Agreements)
MCMaxVisits == [p \in Routes |-> IF p \in {"participants", "settings", "events"} THEN 2 ELSE 1]
=============================================================================
