---------------------------- MODULE MCCrossChain ----------------------------
EXTENDS CrossChain, TLC

CONSTANTS b1, b2

BuyerSymmetry == Permutations({b1, b2})

\* The replayed block is a history that no property of the crosschain run reads.
WithoutReplay ==
  <<market, book, rootHeight, rootHist, committee, nested, lastCert, blocks, certs, used, dropped, halted>>

\* The second address of the exchange only deposits, and then there are two deposits and
\* nothing else: enough for the cap on liquidity providers.
DexBounds ==
  /\ \A c \in Chains, a \in Addresses \ {"a"} : \A q \in {market[c].next, market[c].locked} :
       \A o \in ToSet(q.orders) : o.address # a
  /\ (\E c \in Chains, a \in Addresses \ {"a"} : market[c].accounts[a] # Balance) =>
       /\ used <= 2
       /\ \A c \in Chains : /\ market[c].events = <<>>
                            /\ \A q \in {market[c].next, market[c].locked} : q.orders = <<>> /\ q.withdrawals = <<>>

NonEmpty == {h \in DOMAIN blocks : blocks[h] # <<>>}

ClosePayments == {s \in Payments : s.kind = "close"}

\* The order book by itself.  The order, of seller "s", is there before the nested chain starts.
\* It asks for 3 until it is edited and for 4 from then on; the first block has a payment, no
\* block has two, and one payment in all is meant to close, of either amount to "s" or of 3 to
\* another seller.  Blocks go back to an older root height where nothing but the order, a lock
\* and a close happens; what follows a deletion is cut.
BookBounds ==
  /\ rootHeight > 2 \/ nested.height > 0 => rootHeight > 2 /\ book.past # {}
  /\ \A id \in DOMAIN book.orders :
       /\ book.orders[id].seller = "s"
       /\ book.orders[id].requested = IF used = 1 + Cardinality(NonEmpty) THEN 3 ELSE 4
  /\ nested.height > 1 => 1 \in NonEmpty
  /\ \A h \in NonEmpty : Len(blocks[h]) = 1
  /\ Cardinality({h \in NonEmpty : blocks[h][1].kind = "close"}) <= 1
  /\ \A s \in ClosePayments : s.to = "s" \/ s.amount = 3
  /\ nested.back => used <= 3
  /\ book.past # {} /\ book.orders = <<>> => book.closes # {}

\* Nothing is started in the nested chain's last block, since no later block would go on with it:
\* it settles what the root answers, with no operation waiting behind, or it reads earlier
\* payments again, for a last certificate.
LastBlockBounds ==
  nested.height = MaxNestedHeight =>
    IF market[Nested].pool = 0 THEN blocks[nested.height] = <<>> ELSE nested.open /\ IsEmpty(market[Nested].next)

Bounds == LastBlockBounds /\ IF market[Nested].pool = 0 THEN BookBounds ELSE DexBounds
=============================================================================
