----------------------------- MODULE Decision ------------------------------
(***************************************************************************)
(* What consensus promises the ledger about one height: validators commit, *)
(* one after the other, a block that none of them ever replaces, and all   *)
(* of them the same one.                                                   *)
(***************************************************************************)
CONSTANTS Node, Value, Nil
VARIABLE committed

Init == committed = [n \in Node |-> Nil]

Commit(n, val) ==
  /\ committed[n] = Nil
  /\ \A m \in Node : committed[m] \in {Nil, val}
  /\ committed' = [committed EXCEPT ![n] = val]

Next == \E n \in Node, val \in Value : Commit(n, val)

Spec == Init /\ [][Next]_committed
=============================================================================
