---------------------------- MODULE MCController ----------------------------
EXTENDS Controller

\* A payment that does not fit beside others, one that needs it first, a
\* governance proposal, a certificate and an ill-formed transaction.
MCTxs == {"pay", "spend", "param", "cert", "bad"}

MCTx ==
  [t \in MCTxs |->
    CASE t = "pay"   -> [from |-> "a", to |-> "b", amount |-> 4, fee |-> 2, size |-> 2, kind |-> "send", created |-> 2]
      [] t = "spend" -> [from |-> "b", to |-> "a", amount |-> 1, fee |-> 1, size |-> 1, kind |-> "send", created |-> 3]
      [] t = "param" -> [from |-> "a", to |-> "a", amount |-> 0, fee |-> 3, size |-> 1, kind |-> "proposal", created |-> 2]
      [] t = "cert"  -> [from |-> "b", to |-> "b", amount |-> 0, fee |-> 0, size |-> 1, kind |-> "certificateResults", created |-> 2]
      [] t = "bad"   -> [from |-> "b", to |-> "b", amount |-> 0, fee |-> 1, size |-> 1, kind |-> "send", created |-> 2]]

MCGenesis == [a |-> 20, b |-> 0]

MCBatches == {<<"pay", "cert">>, <<"param", "param">>, <<"spend">>, <<"pay", "pay", "bad">>}

\* What others put into a block; a repeated transaction makes it invalid.
MCSelections == {<<>>, <<"param", "pay">>, <<"param", "param">>}
=============================================================================
