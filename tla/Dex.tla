-------------------------------- MODULE Dex --------------------------------
(***************************************************************************)
(* The two-chain exchange of fsm/dex.go, as operators on the part of a     *)
(* chain's state that belongs to the market with the other chain.          *)
(*                                                                         *)
(* Each chain collects orders, deposits and withdrawals in its next batch, *)
(* locks that batch and sends it to the other chain.  A batch carries the  *)
(* receipts for the other chain's batch, named by its hash.  Each chain    *)
(* mirrors the other's reserves and shares, so that both compute the same  *)
(* prices and shares without asking.                                       *)
(*                                                                         *)
(* A market is a record: accounts, holding (escrow), pool (reserves),      *)
(* points (shares), the locked and the next batch, and two histories: the  *)
(* swap events it emitted and the reserves and shares it computed after    *)
(* each batch.  While a batch is worked on, the market travels with the    *)
(* reserves x of the batch's own chain and y of the chain that executes it *)
(* and with ok, which says that no error has been returned (capped: the    *)
(* error was that of the liquidity-provider cap).                          *)
(*                                                                         *)
(* A hash stands for the batch it is taken of: the chain and the height at *)
(* which that chain locked the batch.  A chain locks at most one batch at  *)
(* a height.                                                               *)
(***************************************************************************)
EXTENDS Integers, Sequences, SequencesExt, FiniteSets, FiniteSetsExt, Functions

CONSTANTS
  Addresses,
  DeadAddr,                 \* deadAddr: the holder of the first shares and of the dust
  MaxOrdersPerDexBatch,
  MaxDepositsPerDexBatch,
  MaxWithdrawsPerDexBatch,
  MaxLiquidityProviders

ASSUME DexAssumption ==
  /\ DeadAddr \notin Addresses
  /\ MaxLiquidityProviders \in Nat \ {0}

Holders == Addresses \cup {DeadAddr}

NoPoints == [a \in Holders |-> 0]

NoHash == <<>>

EmptyBatch == [receiptHash |-> NoHash, orders |-> <<>>, deposits |-> <<>>, withdrawals |-> <<>>,
               poolSize |-> 0, receipts |-> <<>>, lockedHeight |-> 0]

IsEmpty(b) ==
  b.receiptHash = NoHash /\ b.receipts = <<>> /\ b.orders = <<>> /\ b.withdrawals = <<>> /\ b.deposits = <<>>

Hash(chain, b) == IF IsEmpty(b) THEN <<chain>> ELSE <<chain, b.lockedHeight>>

\* GetDexBatch: a batch that is not stored reads as an empty one with the pool's size
GetDexBatch(m, b) == IF IsEmpty(b) THEN [EmptyBatch EXCEPT !.poolSize = m.pool] ELSE b

----------------------------------------------------------------------------
(* Arithmetic                                                                *)

SafeMulDiv(a, b, c) == IF c = 0 THEN 0 ELSE (a * b) \div c

SqrtProduct(x, y) == CHOOSE r \in 0..(x + y) : r * r <= x * y /\ x * y < (r + 1) * (r + 1)

\* The constant product with a fee of one percent
SafeComputeDY(x, y, dX) == (dX * 990 * y) \div (x * 1000 + dX * 990)

TotalPoints(points) == SumFunction(points)

PointHolders(points) == {a \in Holders : points[a] > 0}

Fail(w) == [w EXCEPT !.ok = FALSE]

Pay(m, a, n) == [m EXCEPT !.accounts[a] = @ + n]

----------------------------------------------------------------------------
(* The user's operations.  Funds wait in the holding pool.                   *)

\* Wrong: the funds leave the account and go nowhere.
LimitOrderUnheld(m, order) ==
  [m EXCEPT !.accounts[order.address] = @ - order.amountForSale, !.next.orders = Append(@, order)]

LimitOrder(m, order) ==
  [m EXCEPT !.accounts[order.address] = @ - order.amountForSale, !.holding = @ + order.amountForSale,
            !.next.orders = Append(@, order)]

MayLimitOrder(m, order) ==
  /\ m.pool > 0
  /\ Len(m.next.orders) < MaxOrdersPerDexBatch
  /\ m.accounts[order.address] >= order.amountForSale

LiquidityDeposit(m, deposit) ==
  [m EXCEPT !.accounts[deposit.address] = @ - deposit.amount, !.holding = @ + deposit.amount,
            !.next.deposits = Append(@, deposit)]

MayLiquidityDeposit(m, deposit) ==
  /\ m.pool > 0
  /\ Cardinality(PointHolders(m.points)) < MaxLiquidityProviders
  /\ Len(m.next.deposits) < MaxDepositsPerDexBatch
  /\ m.accounts[deposit.address] >= deposit.amount

LiquidityWithdraw(m, withdrawal) == [m EXCEPT !.next.withdrawals = Append(@, withdrawal)]

MayLiquidityWithdraw(m, withdrawal) ==
  /\ m.pool > 0
  /\ Len(m.next.withdrawals) < MaxWithdrawsPerDexBatch
  /\ m.points[withdrawal.address] > 0

----------------------------------------------------------------------------
(* Settling orders: ours by the receipts, theirs by executing them           *)

SwapEvent(order, dY, local) == [order |-> order.id, received |-> dY, local |-> local]

HandleOrderReceipts(w, orders, receipts) ==
  LET Step(v, i) ==
        LET o == orders[i]
            dY == receipts[i]
            held == [v.m EXCEPT !.holding = @ - o.amountForSale,
                                !.events = Append(@, SwapEvent(o, dY, TRUE))]
        IN  IF ~v.ok \/ v.m.holding < o.amountForSale \/ (dY # 0 /\ v.y <= dY) THEN Fail(v)
            ELSE IF dY = 0 THEN [v EXCEPT !.m = Pay(held, o.address, o.amountForSale)]
            ELSE [v EXCEPT !.m = [held EXCEPT !.pool = @ + o.amountForSale],
                           !.x = @ + o.amountForSale, !.y = @ - dY]
  IN  FoldLeftDomain(Step, w, orders)

\* Orders are executed in an order that depends on the last block's hash; the
\* receipts are in the order of the batch.
HandleDexBatchOrders(w, orders, permutation) ==
  LET Execute(v, i) ==
        LET o == orders[i]
            quote == SafeComputeDY(v.x, v.y, o.amountForSale)
            dY == IF quote < o.requestedAmount THEN 0 ELSE quote
            shown == [v EXCEPT !.m.events = Append(@, SwapEvent(o, dY, FALSE)), !.receipts[i] = dY]
        IN  IF dY = 0 THEN shown ELSE [shown EXCEPT !.x = @ + o.amountForSale, !.y = @ - dY]
      Distribute(v, i) ==
        IF v.receipts[i] = 0 THEN v
        ELSE [v EXCEPT !.m = Pay([@ EXCEPT !.pool = @ - v.receipts[i]], orders[i].address, v.receipts[i])]
      start == [w EXCEPT !.receipts = [i \in DOMAIN orders |-> 0]]
  IN  IF ~w.ok \/ w.x = 0 \/ w.y = 0 THEN Fail(w)
      ELSE FoldLeftDomain(Distribute, FoldLeft(Execute, start, permutation), orders)

----------------------------------------------------------------------------
(* Shares.  Both chains burn and mint the same ones; x and y are the same    *)
(* reserves on both, only which of them is the chain's own pool differs.     *)

\* Wrong: what rounding leaves undistributed is taken from the pool as well.
PoolAfterWithdrawTotals(own, paid, total) == own - total

\* The pool goes down by what was paid.
PoolAfterWithdraw(own, paid, total) == own - paid

\* One withdrawal: its shares are burned, and it is paid the part of the chain's own pool.
Withdraw(v, a, burned, xShare, yShare, local) ==
  LET left == [v.m.points EXCEPT ![a] = @ - burned]
  IN  IF ~v.ok \/ v.m.points[a] = 0 THEN v
      ELSE IF TotalPoints(left) = 0 THEN Fail(v)
      ELSE [v EXCEPT !.m = Pay([@ EXCEPT !.points = left], a, IF local THEN xShare ELSE yShare),
                     !.paidX = @ + xShare, !.paidY = @ + yShare]

HandleBatchWithdraw(w, withdrawals, local) ==
  LET Burn(points, i) == SafeMulDiv(points[withdrawals[i].address], withdrawals[i].percent, 100)
      Paid(removed, totalX, totalY) ==
        LET Step(v, i, burned) == Withdraw(v, withdrawals[i].address, burned, SafeMulDiv(totalX, burned, removed),
                                           SafeMulDiv(totalY, burned, removed), local)
        IN  FoldLeftDomain(LAMBDA v, i : Step(v, i, Burn(v.m.points, i)), [w EXCEPT !.paidX = 0, !.paidY = 0], withdrawals)
      Debited(done, totalX, totalY) ==
        [done EXCEPT !.x = PoolAfterWithdraw(@, done.paidX, totalX), !.y = PoolAfterWithdraw(@, done.paidY, totalY)]
      Stored(v) == [v EXCEPT !.m.pool = IF local THEN v.x ELSE v.y]
      Shared(removed, totalX, totalY) == Stored(Debited(Paid(removed, totalX, totalY), totalX, totalY))
      Removed(removed) ==
        IF ~w.ok \/ removed = 0 THEN w
        ELSE Shared(removed, SafeMulDiv(w.x, removed, TotalPoints(w.m.points)), SafeMulDiv(w.y, removed, TotalPoints(w.m.points)))
  IN  Removed(FoldLeftDomain(LAMBDA n, i : n + Burn(w.m.points, i), 0, withdrawals))

\* One deposit: the depositor gets its share; on its own chain the funds leave the holding pool.
Deposit(v, d, share, local) ==
  IF ~v.ok \/ (local /\ v.m.holding < d.amount) THEN Fail(v)
  ELSE IF share > 0 /\ v.m.points[d.address] = 0
          /\ Cardinality(PointHolders(v.m.points)) >= MaxLiquidityProviders THEN [Fail(v) EXCEPT !.capped = TRUE]
  ELSE [v EXCEPT !.m.points[d.address] = @ + share,
                 !.m.holding = IF local THEN @ - d.amount ELSE @,
                 !.m.pool = IF local THEN @ + d.amount ELSE @,
                 !.x = @ + d.amount]

HandleBatchDeposit(w, deposits, local) ==
  LET Initial(v, oldK) == IF TotalPoints(v.m.points) # 0 THEN v ELSE [v EXCEPT !.m.points = [NoPoints EXCEPT ![DeadAddr] = oldK]]
      Minted(v, amount, minted) ==
        LET Share(d) == SafeMulDiv(minted, d.amount, amount)
            dust == minted - FoldLeft(LAMBDA n, d : n + Share(d), 0, deposits)
        IN  [FoldLeft(LAMBDA u, d : Deposit(u, d, Share(d), local), v, deposits) EXCEPT !.m.points[DeadAddr] = @ + dust]
      Grown(v, amount, oldK, newK) == Minted(v, amount, SafeMulDiv(TotalPoints(v.m.points), newK - oldK, oldK))
      Deposited(amount, oldK) == Grown(Initial(w, oldK), amount, oldK, SqrtProduct(w.x + amount, w.y))
      Added(amount) == IF ~w.ok \/ amount = 0 \/ w.x = 0 \/ w.y = 0 THEN w ELSE Deposited(amount, SqrtProduct(w.x, w.y))
  IN  Added(FoldLeft(LAMBDA n, d : n + d.amount, 0, deposits))

----------------------------------------------------------------------------
(* The life cycle of batches                                                 *)

\* What both chains must agree on after a batch
Logged(w, hash) ==
  IF ~w.ok THEN w
  ELSE [w EXCEPT !.m.log = Append(@, [batch |-> hash, x |-> w.x, y |-> w.y, points |-> w.m.points])]

\* Wrong: any batch of the other chain settles ours, as long as the counts fit.
ReceiptMismatchCount(chain, ours, theirs) == Len(ours.orders) # Len(theirs.receipts)

ReceiptMismatch(chain, ours, theirs) ==
  theirs.receiptHash # Hash(chain, ours) \/ Len(ours.orders) # Len(theirs.receipts)

\* 1: our locked batch is settled by the receipts for it, and unlocked
HandleReceiptsForOurLockedBatch(m, chain, remote) ==
  LET ours == m.locked
      start == [m |-> m, x |-> m.pool, y |-> remote.poolSize, ok |-> TRUE, capped |-> FALSE, paidX |-> 0, paidY |-> 0, receipts |-> <<>>]
      settled == HandleOrderReceipts(start, ours.orders, remote.receipts)
      done == HandleBatchDeposit(HandleBatchWithdraw(settled, ours.withdrawals, TRUE), ours.deposits, TRUE)
  IN  IF IsEmpty(ours) THEN start ELSE Logged([done EXCEPT !.m.locked = EmptyBatch], Hash(chain, ours))

\* 2: their batch is executed; now x is the mirror and y our pool
HandleRemoteChainLockedBatch(w, counter, remote, permutation) ==
  LET start == [w EXCEPT !.x = w.y, !.y = w.m.pool]
      executed == HandleDexBatchOrders(start, remote.orders, permutation)
      done == HandleBatchDeposit(HandleBatchWithdraw(executed, remote.withdrawals, FALSE), remote.deposits, FALSE)
  IN  IF ~w.ok THEN w ELSE Logged(done, Hash(counter, remote))

\* Wrong: the pool as it is after the other chain's batch.
MidPointPoolSizeLate(settled, executed) == executed.m.pool

\* The pool after our receipts and before their batch: what the mirror starts from
MidPointPoolSize(settled, executed) == settled.m.pool

\* 3: the next batch is locked, unless one still is
RotateDexBatches(m, height, receiptHash, poolSize, receipts) ==
  IF ~IsEmpty(m.locked) THEN m
  ELSE [m EXCEPT !.locked = [m.next EXCEPT !.poolSize = poolSize, !.receiptHash = receiptHash,
                                           !.lockedHeight = height, !.receipts = receipts],
                 !.next = EmptyBatch]

\* The result when nothing fails
Fine(m) == [ok |-> TRUE, capped |-> FALSE, m |-> m]

\* The result has ok = FALSE when an error is returned.
HandleRemoteDexBatch(m, chain, counter, height, remote, permutation) ==
  LET Rotated(w, size) == [ok |-> w.ok, capped |-> w.capped, m |-> RotateDexBatches(w.m, height, Hash(counter, remote), size, w.receipts)]
      Finished(settled, executed) == Rotated(executed, MidPointPoolSize(settled, executed))
      Executed(settled) == Finished(settled, HandleRemoteChainLockedBatch(settled, counter, remote, permutation))
  IN  IF IsEmpty(remote)
      THEN Fine(RotateDexBatches(m, height, Hash(counter, remote), m.pool, <<>>))
      ELSE IF ~IsEmpty(m.locked) /\ ReceiptMismatch(chain, m.locked, remote) THEN Fine(m)
      ELSE Executed(HandleReceiptsForOurLockedBatch(m, chain, remote))

Refunded(b) == [i \in DOMAIN b.orders |-> <<b.orders[i].address, b.orders[i].amountForSale>>]
               \o [i \in DOMAIN b.deposits |-> <<b.deposits[i].address, b.deposits[i].amount>>]

\* HandleLivenessFallback: the nested chain gives its locked batch up
HandleLivenessFallback(m, points) ==
  LET Refund(n, r) == Pay([n EXCEPT !.holding = @ - r[2]], r[1], r[2])
      refunded == FoldLeft(Refund, m, Refunded(m.locked))
  IN  [refunded EXCEPT !.points = points, !.locked = EmptyBatch]

\* IncludeSameBlockDex: operations of the block in which a batch was locked still join it
IncludeSameBlockDex(m, height) ==
  LET CanMove(locked, next, max) == IF Len(locked) >= max THEN 0 ELSE Min({Len(next), max - Len(locked)})
      o == CanMove(m.locked.orders, m.next.orders, MaxOrdersPerDexBatch)
      d == CanMove(m.locked.deposits, m.next.deposits, MaxDepositsPerDexBatch)
      v == CanMove(m.locked.withdrawals, m.next.withdrawals, MaxWithdrawsPerDexBatch)
      Moved(locked, next, n) == locked \o SubSeq(next, 1, n)
      Left(next, n) == SubSeq(next, n + 1, Len(next))
      rest == [m.next EXCEPT !.orders = Left(@, o), !.deposits = Left(@, d), !.withdrawals = Left(@, v)]
  IN  IF IsEmpty(m.locked) \/ m.locked.lockedHeight # height \/ (o = 0 /\ d = 0 /\ v = 0) THEN m
      ELSE [m EXCEPT !.locked = [@ EXCEPT !.orders = Moved(@, m.next.orders, o),
                                          !.deposits = Moved(@, m.next.deposits, d),
                                          !.withdrawals = Moved(@, m.next.withdrawals, v)],
                     !.next = IF IsEmpty(rest) THEN EmptyBatch ELSE rest]
=============================================================================
