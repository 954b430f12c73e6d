----------------------------- MODULE CrossChain -----------------------------
(***************************************************************************)
(* A root chain and one chain nested in it, with the exchange of Dex and   *)
(* the order book of Swap between them.                                    *)
(*                                                                         *)
(* The nested chain reads the root chain's state at a height that the      *)
(* proposer chooses, and it writes to the root chain through certificate   *)
(* results: one transaction for each nested block, which the proposer      *)
(* submits and which may arrive late, out of order or not at all.          *)
(*                                                                         *)
(* A certificate is the result of a nested block, so that what it says     *)
(* of the root chain is used when the next block begins (BeginBlock        *)
(* handles the last certificate).                                          *)
(***************************************************************************)
EXTENDS Dex, Swap

CONSTANTS
  TriggerModuloBlocks,      \* a locked batch is sent when its age is a multiple of this
  LivenessFallbackBlocks,   \* and given up at this age
  PoolSeed,                 \* the liquidity each chain's genesis gives its pool
  Balance,                  \* the genesis balance of an account
  SellAmounts,              \* amounts for orders and deposits
  AskAmounts,               \* amounts asked for on the exchange
  Prices,                   \* and in the order book
  PayAmounts,               \* a buyer's payments
  Percents,                 \* of a withdrawal
  MaxDexOperations,         \* bounds on the number of user operations with the exchange
  MaxBookOperations,        \* and with the order book
  MaxRootHeight,            \* bounds on the heights
  MaxNestedHeight

ASSUME CrossChainAssumption ==
  /\ TriggerModuloBlocks \in Nat \ {0} /\ LivenessFallbackBlocks \in Nat
  /\ RereadTo < RereadFrom /\ PoolSeed > 0

VARIABLES
  market,       \* chain -> the exchange's part of its state
  book,         \* the order book on the root chain
  rootHeight,   \* the height of the root block under construction
  rootHist,     \* what can be read of each committed root height
  committee,    \* the root's CommitteeData: heights of the last certificate
  nested,       \* the nested chain's block under construction; history: back, whether a
                \* block was built on an older root height than the one before it while orders exist
  lastCert,     \* what the last certificate says of the root's batch
  blocks,       \* the nested chain's blocks: sequences of payments with commands
  certs,        \* the certificate transactions on their way to the root
  used,         \* number of user operations
  dropped,      \* history: whether a locked batch was given up
  halted,       \* "no", or why BeginBlock returned an error: "cap" of liquidity providers, "error"
  replay        \* history: the last BeginBlock, to be compared with its replay

vars == <<market, book, rootHeight, rootHist, committee, nested, lastCert, blocks, certs, used, dropped, halted, replay>>

Root == "root"
Nested == "nested"
Chains == {Root, Nested}

NoRead == [set |-> FALSE, fallback |-> FALSE, batch |-> EmptyBatch, points |-> NoPoints]

NoReplay == [before |-> <<>>]

----------------------------------------------------------------------------
(* User operations                                                           *)

Operation(max) == used < max /\ used' = used + 1

Running == halted = "no"

\* An operation is part of a block: the nested chain's block is open between begin and end
BlockOpen(c) == Running /\ (c = Nested => nested.open)

DexLimitOrder(c, a, amount, ask) ==
  LET order == [id |-> used + 1, address |-> a, amountForSale |-> amount, requestedAmount |-> ask]
  IN  /\ BlockOpen(c) /\ MayLimitOrder(market[c], order) /\ Operation(MaxDexOperations)
      /\ market' = [market EXCEPT ![c] = LimitOrder(@, order)]
      /\ UNCHANGED <<book, rootHeight, rootHist, committee, nested, lastCert, blocks, certs, dropped, halted, replay>>

DexLiquidityDeposit(c, a, amount) ==
  LET deposit == [address |-> a, amount |-> amount]
  IN  /\ BlockOpen(c) /\ MayLiquidityDeposit(market[c], deposit) /\ Operation(MaxDexOperations)
      /\ market' = [market EXCEPT ![c] = LiquidityDeposit(@, deposit)]
      /\ UNCHANGED <<book, rootHeight, rootHist, committee, nested, lastCert, blocks, certs, dropped, halted, replay>>

DexLiquidityWithdraw(c, a, percent) ==
  LET withdrawal == [address |-> a, percent |-> percent]
  IN  /\ BlockOpen(c) /\ MayLiquidityWithdraw(market[c], withdrawal) /\ Operation(MaxDexOperations)
      /\ market' = [market EXCEPT ![c] = LiquidityWithdraw(@, withdrawal)]
      /\ UNCHANGED <<book, rootHeight, rootHist, committee, nested, lastCert, blocks, certs, dropped, halted, replay>>

\* Seller messages on the root chain
SellerSteps(b) ==
  /\ Running /\ Operation(MaxBookOperations) /\ book' = b
  /\ UNCHANGED <<market, rootHeight, rootHist, committee, nested, lastCert, blocks, certs, dropped, halted, replay>>

MessageCreateOrder(id, seller, amount, ask) ==
  id \notin DOMAIN book.orders /\ id \notin book.past /\ MayCreate(book, seller, amount)
  /\ SellerSteps([CreateOrder(book, id, seller, amount, ask) EXCEPT !.past = @ \cup {id}])

MessageEditOrder(id, amount, ask) ==
  id \in DOMAIN book.orders /\ MayEdit(book, id, amount) /\ SellerSteps(EditOrder(book, id, amount, ask))

MessageDeleteOrder(id) == id \in DOMAIN book.orders /\ MayDelete(book, id) /\ SellerSteps(DeleteOrder(book, id))

\* Buyer payments on the nested chain
Send(send) ==
  /\ BlockOpen(Nested) /\ Operation(MaxBookOperations)
  /\ blocks' = [blocks EXCEPT ![Len(blocks)] = Append(@, send)]
  /\ UNCHANGED <<market, book, rootHeight, rootHist, committee, nested, lastCert, certs, dropped, halted, replay>>

SendLock(buyer, id) == book.past # {} /\ Send([kind |-> "lock", id |-> id, from |-> buyer, to |-> buyer, amount |-> 0])

SendClose(buyer, id, seller, amount) ==
  book.past # {} /\ Send([kind |-> "close", id |-> id, from |-> buyer, to |-> seller, amount |-> amount])

----------------------------------------------------------------------------
(* The root chain                                                            *)

ExecutionOrders(n) == {p \in [1..n -> 1..n] : \A i, j \in 1..n : p[i] = p[j] => i = j}

\* The certificate's heights against the committee's data
Timely(cert) == cert.rootHeight >= committee.lastRoot /\ cert.height > committee.lastChain

\* HandleCertificateResults on the root.  When the batch fails, so does the transaction.
DeliverCertificate(cert, permutation) ==
  \E handled \in {IF IsEmpty(cert.dexBatch) \/ market[Root].pool = 0 THEN Fine(market[Root])
                  ELSE HandleRemoteDexBatch(market[Root], Root, Nested, rootHeight, cert.dexBatch, permutation)} :
    /\ Timely(cert) /\ handled.ok
    /\ market' = [market EXCEPT ![Root] = handled.m]
    /\ book' = HandleCommitteeSwaps(book, cert.orders)
    /\ committee' = [lastRoot |-> cert.rootHeight, lastChain |-> cert.height]
    /\ UNCHANGED <<rootHeight, rootHist, nested, lastCert, blocks, certs, used, dropped, halted, replay>>

\* History: the orders of the other chain that a chain has executed
Executed(m) == {e.order : e \in {f \in ToSet(m.events) : ~f.local}}

\* What the nested chain can read of the root's state (executed: history)
Readable(m) == [batch |-> GetDexBatch(m, m.locked),
                points |-> IF IsEmpty(m.locked) THEN NoPoints ELSE m.points,
                orders |-> book.orders, lastRoot |-> committee.lastRoot, executed |-> Executed(m)]

RootCommit ==
  LET m == IncludeSameBlockDex(market[Root], rootHeight)
  IN  /\ Running /\ rootHeight < MaxRootHeight
      /\ market' = [market EXCEPT ![Root] = m]
      /\ rootHist' = Append(rootHist, Readable(m))
      /\ rootHeight' = rootHeight + 1
      /\ UNCHANGED <<book, committee, nested, lastCert, blocks, certs, used, dropped, halted, replay>>

----------------------------------------------------------------------------
(* The nested chain                                                          *)

\* Wrong: always the batch of the last certificate.
RemoteBatchOfLast(last, cached) == last

\* The batch read for this block, except that a fallback uses the last certificate's.
RemoteBatch(last, cached) == IF last.fallback THEN last ELSE cached

\* HandleDexBatch at BeginBlock: the last certificate decides whether the root's batch is used.
BeginDex(m, height, last, cached, permutation) ==
  LET Start(remote) == IF remote.fallback THEN HandleLivenessFallback(m, remote.points) ELSE m
      Handled(remote) == HandleRemoteDexBatch(Start(remote), Nested, Root, height, remote.batch, permutation)
  IN  IF ~last.set \/ m.pool = 0 THEN Fine(m) ELSE Handled(RemoteBatch(last, cached))

\* RCManager.GetDexBatch at a root height; only a fallback asks for the points.
ReadBatch(rc, fallback) ==
  [set |-> TRUE, fallback |-> fallback, batch |-> rootHist[rc].batch,
   points |-> IF fallback THEN rootHist[rc].points ELSE NoPoints]

\* The root heights that validators accept for building a block
BuildHeights(rh) == Max({1, rootHist[rh].lastRoot})..rh

NestedBegin(rh, rc, permutation) ==
  LET h == nested.height + 1
  IN  /\ Running /\ ~nested.open /\ nested.height < MaxNestedHeight
      /\ nested.rootHeight <= rh /\ rc \in BuildHeights(rh)
      /\ \E begun \in {BeginDex(market[Nested], h, lastCert, ReadBatch(rc, FALSE), permutation)} :
           /\ halted' = IF begun.ok THEN "no" ELSE IF begun.capped THEN "cap" ELSE "error"
           /\ market' = [market EXCEPT ![Nested] = IF begun.ok THEN begun.m ELSE @]
           /\ replay' = [before |-> market[Nested], last |-> lastCert, permutation |-> permutation, after |-> begun.m]
      /\ nested' = [open |-> TRUE, height |-> h, rootHeight |-> rh, rc |-> rc,
                    back |-> nested.back \/ (book.past # {} /\ rc < nested.rc)]
      /\ blocks' = Append(blocks, <<>>)
      /\ dropped' = (dropped \/ (lastCert.set /\ lastCert.fallback))
      /\ UNCHANGED <<book, rootHeight, rootHist, committee, lastCert, certs, used>>

Age(m) == nested.height - m.locked.lockedHeight

\* HandleDex: the locked batch, from time to time
SentBatch(m) == IF ~IsEmpty(m.locked) /\ Age(m) % TriggerModuloBlocks = 0 THEN m.locked ELSE EmptyBatch

GivesUp(m) == ~IsEmpty(m.locked) /\ Age(m) % TriggerModuloBlocks = 0 /\ Age(m) >= LivenessFallbackBlocks

\* EndBlock, and the results of the block in its certificate
NestedEnd ==
  LET m == IncludeSameBlockDex(market[Nested], nested.height)
      cert == [height |-> nested.height, rootHeight |-> nested.rootHeight,
               dexBatch |-> IF m.pool = 0 THEN EmptyBatch ELSE SentBatch(m),
               orders |-> ProcessRootChainOrderBook(rootHist[nested.rc].orders, blocks)]
  IN  /\ Running /\ nested.open
      /\ market' = [market EXCEPT ![Nested] = m]
      /\ lastCert' = IF m.pool = 0 THEN NoRead ELSE ReadBatch(nested.rc, GivesUp(m))
      /\ certs' = certs \cup {cert}
      /\ nested' = [nested EXCEPT !.open = FALSE]
      /\ UNCHANGED <<book, rootHeight, rootHist, committee, blocks, used, dropped, halted, replay>>

----------------------------------------------------------------------------

Market(pool) == [accounts |-> [a \in Addresses |-> Balance], holding |-> 0, pool |-> pool, points |-> NoPoints,
                 locked |-> EmptyBatch, next |-> EmptyBatch, events |-> <<>>, log |-> <<>>]

\* Either the pools are seeded and the market is the exchange, or there is an order book.
Init ==
  /\ \E pool \in {0, PoolSeed} :
       /\ market = [c \in Chains |-> Market(pool)]
       /\ book = [orders |-> <<>>, escrow |-> 0, accounts |-> [a \in Sellers \cup Buyers |-> IF pool = 0 THEN Balance ELSE 0],
                  resets |-> {}, closes |-> {}, past |-> {}]
  /\ rootHeight = 2
  /\ rootHist = <<[batch |-> GetDexBatch(market[Root], EmptyBatch), points |-> NoPoints, orders |-> <<>>, lastRoot |-> 0,
                 executed |-> {}]>>
  /\ committee = [lastRoot |-> 0, lastChain |-> 0]
  /\ nested = [open |-> FALSE, height |-> 0, rootHeight |-> 1, rc |-> 1, back |-> FALSE]
  /\ lastCert = NoRead /\ blocks = <<>> /\ certs = {} /\ used = 0
  /\ dropped = FALSE /\ halted = "no" /\ replay = NoReplay

Next ==
  \/ \E c \in Chains, a \in Addresses :
       \/ \E n \in SellAmounts, ask \in AskAmounts : DexLimitOrder(c, a, n, ask)
       \/ \E n \in SellAmounts : DexLiquidityDeposit(c, a, n)
       \/ \E p \in Percents : DexLiquidityWithdraw(c, a, p)
  \/ \E id \in OrderIds, n \in SellAmounts, ask \in Prices :
       (\E s \in Sellers : MessageCreateOrder(id, s, n, ask)) \/ MessageEditOrder(id, n, ask)
  \/ \E id \in OrderIds : MessageDeleteOrder(id)
  \/ \E b \in Buyers, id \in OrderIds : SendLock(b, id)
  \/ \E b \in Buyers, id \in OrderIds, s \in Sellers, n \in PayAmounts : SendClose(b, id, s, n)
  \/ \E cert \in certs : \E p \in ExecutionOrders(Len(cert.dexBatch.orders)) : DeliverCertificate(cert, p)
  \/ RootCommit
  \/ \E rh \in DOMAIN rootHist, rc \in DOMAIN rootHist :
       \E p \in ExecutionOrders(Len((IF lastCert.fallback THEN lastCert ELSE rootHist[rc]).batch.orders)) : NestedBegin(rh, rc, p)
  \/ NestedEnd

Spec == Init /\ [][Next]_vars

----------------------------------------------------------------------------
(* Properties                                                                *)

\* No balance, pool or share is negative, the records of heights are complete, and the root
\* knows no certificate of a block to come.
TypeOK ==
  /\ \A c \in Chains : market[c].holding \in Nat /\ market[c].pool \in Nat
                       /\ \A a \in Holders : market[c].points[a] \in Nat
  /\ book.escrow \in Nat /\ \A a \in DOMAIN book.accounts : book.accounts[a] \in Nat
  /\ Len(rootHist) = rootHeight - 1 /\ Len(blocks) = nested.height
  /\ committee.lastChain <= nested.height

Amounts(b) == FoldLeft(LAMBDA n, o : n + o.amountForSale, 0, b.orders)
              + FoldLeft(LAMBDA n, d : n + d.amount, 0, b.deposits)

\* No token of either chain appears or vanishes in the exchange, whatever is rounded,
\* refunded or given up (dex.go; HandleBatchWithdraw writes the pool as a total).
TokensConserved ==
  /\ \E pool \in {0, PoolSeed} : \A c \in Chains :
       SumFunction(market[c].accounts) + market[c].holding + market[c].pool
         = pool + Balance * Cardinality(Addresses)
  /\ SumFunction(book.accounts) + book.escrow \in {0, Balance * Cardinality(Sellers \cup Buyers)}

\* The holding pool is exactly what the pending orders and deposits brought in, so that
\* each of them can be settled or refunded (HandleOrderReceipts, HandleLivenessFallback).
HoldingMatches == \A c \in Chains : market[c].holding = Amounts(market[c].locked) + Amounts(market[c].next)

\* The two chains compute the same reserves and the same shares after every batch, although
\* each knows the other's pool only from what the batches carry (the mirrored ledgers of
\* dex.go).  Giving a batch up breaks the common order of batches.
MirroredLedgers ==
  ~dropped => \A i \in DOMAIN market[Root].log \cap DOMAIN market[Nested].log :
                market[Root].log[i] = market[Nested].log[i]

Events(id, local) == {<<c, i>> \in Chains \X (1..(2 * MaxDexOperations)) :
                        /\ i <= Len(market[c].events)
                        /\ market[c].events[i].order = id /\ market[c].events[i].local = local}

\* As long as no locked batch is given up, an order is executed once and settled once, with
\* the same amount on both chains: paid there and sold here, or refunded here and not paid
\* there (HandleOrderReceipts, HandleDexBatchOrders).
AtomicExchange ==
  ~dropped => \A id \in 1..used :
    /\ Cardinality(Events(id, FALSE)) <= 1 /\ Cardinality(Events(id, TRUE)) <= 1
    /\ \A e \in Events(id, TRUE) : \E f \in Events(id, FALSE) :
         market[e[1]].events[e[2]].received = market[f[1]].events[f[2]].received /\ e[1] # f[1]

\* What arrives from the root makes BeginBlock of the nested chain fail, which no later block
\* could repair, in one case only: a deposit meets the cap on liquidity providers, which is
\* checked against the pool when the deposit is made and again when it is executed, on both
\* chains (HandleBatchDeposit).  Reserves, the holding pool and shares never run short
\* (ErrRemotePoolSizeDebit, PoolSub, RemovePoints).
HaltsOnlyAtCap == halted \in {"no", "cap"}

\* The escrow pool is exactly what the open and locked orders offer (swap.go, message.go).
EscrowMatches == book.escrow = SumFunction([id \in DOMAIN book.orders |-> book.orders[id].amount])

Payments == UNION {ToSet(blocks[h]) : h \in DOMAIN blocks}

\* The committee judges a payment by a book that may have changed since, and the close applies
\* to the order as it is then (ProcessRootChainOrderBook, CloseOrder).  Escrowed tokens leave
\* only for an order whose seller has been paid, by whoever held the lock, a price that the
\* order had at some root height.
SellersPaid ==
  \A c \in book.closes : \E s \in Payments, h \in DOMAIN rootHist :
    s.kind = "close" /\ s.id = c.id /\ c.id \in DOMAIN rootHist[h].orders /\ ValidClose(s, rootHist[h].orders[c.id])

\* And as long as each block is built on a root height no older than the block before it, they
\* go to the buyer who has paid that seller what the order asks for when it is closed.
ClosedOnlyPaid ==
  /\ SellersPaid
  /\ ~nested.back => \A c \in book.closes : \E s \in Payments :
                       s.kind = "close" /\ s.id = c.id /\ ValidClose(s, c.order)

\* A locked batch is given up only when, at the root height its block was built on, the root
\* has executed none of its orders: those would be refunded here and stay paid there.
\* HandleDex does not look; it holds because the block has begun with the root's batch of the
\* same height, and would have been settled by it.  What the root executes at a later height,
\* from a certificate still on its way, is outside: it is refunded and paid (the liveness rule
\* of dex.md).
GivenUpUnexecuted ==
  ~nested.open /\ lastCert.fallback =>
    \A o \in ToSet(market[Nested].locked.orders) : o.id \notin rootHist[nested.rc].executed

\* A node that replays the block, with the batch its certificate carries, reaches the state
\* that the validators reached (CommitCertificate).
DeterministicReplay ==
  replay # NoReplay /\ ~nested.open =>
    BeginDex(replay.before, nested.height, replay.last, lastCert, replay.permutation).m = replay.after

\* Whatever waits for a settlement is covered by what was taken for it, exactly: the holding
\* pool of each chain by its batches, and the escrow pool by the order book.
PendingCovered == HoldingMatches /\ EscrowMatches

\* No token of either chain appears, vanishes or is owed.
TokensAccounted == TypeOK /\ TokensConserved
=============================================================================
