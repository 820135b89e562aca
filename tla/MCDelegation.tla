---------------------------- MODULE MCDelegation ----------------------------
(* The instance TLC checks of Delegation: two representatives of one of the   *)
(* organisations, one of whom represents another as well, and an employee.    *)
EXTENDS Delegation, TLC
CONSTANTS ann, bob, eve, k1, k2, a1, w1, w2
ThePeople == {ann, bob, eve}
TheEmails == [p \in ThePeople |->
                CASE p = ann -> "ann" [] p = bob -> "bob" [] p = eve -> "eve"]
Representatives ==
    [p \in ThePeople |->
       CASE p = ann -> {k1} [] p = bob -> {k1, k2} [] p = eve -> {}]
WorkersAlike == Permutations({w1, w2})
=============================================================================
