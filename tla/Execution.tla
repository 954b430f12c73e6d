----------------------------- MODULE Execution -----------------------------
(***************************************************************************)
(* How the state machine executes a block (fsm/state.go), reduced to what  *)
(* its layers of state do: the store, the transactions that wrap it, and   *)
(* the account cache that is read before the store.                        *)
(*                                                                         *)
(* A state machine is a record: acc and fees are the store's accounts and  *)
(* reward pool, cache the cached accounts.  What messages do beside a      *)
(* transfer is in Ledger, Dex and Swap.  One account, Recipient, receives  *)
(* the fees at the end of a block.                                         *)
(***************************************************************************)
EXTENDS TxPool

CONSTANTS
  Accounts,
  Recipient,            \* the account the last certificate pays
  MaxBlockSize,         \* a governance parameter
  BlockAcceptanceRange,
  Approved              \* the governance proposals on the local approve list

AcceptAll == "acceptAll"
ApproveList == "approveList"
RejectAll == "rejectAll"
Modes == {AcceptAll, ApproveList, RejectAll}

NoCache == <<>>

GetAccount(f, a) == IF a \in DOMAIN f.cache THEN f.cache[a] ELSE f.acc[a]

SetAccount(f, a, amount) ==
  [f EXCEPT !.acc[a] = amount,
            !.cache = [x \in DOMAIN @ \cup {a} |-> IF x = a THEN amount ELSE @[x]]]

AccountAdd(f, a, amount) == IF amount = 0 THEN f ELSE SetAccount(f, a, GetAccount(f, a) + amount)

AccountSub(f, a, amount) == IF amount = 0 THEN f ELSE SetAccount(f, a, GetAccount(f, a) - amount)

AccountDeductFees(f, a, fee) == [AccountSub(f, a, fee) EXCEPT !.fees = @ + fee]

\* CheckTx before any transaction of the block is applied: no hash is given,
\* so the indexer is not asked yet.
CheckTx(t, height) ==
  /\ t \notin IllFormed
  /\ height - BlockAcceptanceRange <= Tx[t].created
  /\ Tx[t].created <= height + BlockAcceptanceRange

CheckReplay(t, indexed) == t \notin indexed

ApproveProposal(t, mode) ==
  \/ Tx[t].kind # "proposal"
  \/ mode = AcceptAll
  \/ mode = ApproveList /\ t \in Approved

\* ApplyTransaction: the fee first, then the message.
Applies(f, t, height, indexed, mode) ==
  /\ CheckTx(t, height)
  /\ CheckReplay(t, indexed)
  /\ GetAccount(f, Tx[t].from) >= Tx[t].fee + Tx[t].amount
  /\ ApproveProposal(t, mode)

ApplyTransaction(f, t) ==
  LET paid == AccountDeductFees(f, Tx[t].from, Tx[t].fee)
  IN  AccountAdd(AccountSub(paid, Tx[t].from, Tx[t].amount), Tx[t].to, Tx[t].amount)

\* Wrong: what a failed transaction cached survives the rollback of the store.
RollbackStoreOnly(f, t) ==
  IF GetAccount(f, Tx[t].from) < Tx[t].fee THEN f
  ELSE [f EXCEPT !.cache = AccountDeductFees(f, Tx[t].from, Tx[t].fee).cache]

\* A failed transaction: its store transaction is dropped, and all caches.
Rollback(f, t) == [f EXCEPT !.cache = NoCache]

\* One iteration of ApplyTransactions.  From the first transaction that does not fit on, the
\* store is wrapped: their effects go with the wrapper, but not the accounts
\* they cached.
Step(r, t, height, indexed, mode) ==
  LET Next(q, oversize) ==
        IF ~Applies(q.fsm, t, height, indexed, mode)
        THEN [q EXCEPT !.failed = @ \cup {t}, !.oversize = oversize,
                       !.fsm = IF CheckTx(t, height) THEN Rollback(@, t) ELSE @]
        ELSE [q EXCEPT !.fsm = ApplyTransaction(@, t),
                       !.oversize = oversize,
                       !.txs = IF oversize THEN @ ELSE Append(@, t),
                       !.size = IF oversize THEN @ ELSE @ + Tx[t].size,
                       !.base = IF oversize THEN @ ELSE ApplyTransaction(q.fsm, t)]
  IN  Next(r, r.oversize \/ (CheckTx(t, height) /\ Tx[t].size + r.size > MaxBlockSize))

\* The store is the original one again, under the cache as it is now.
Unwrapped(r) == [r EXCEPT !.fsm = [r.base EXCEPT !.cache = r.fsm.cache]]

\* The state of the loop after each number of transactions.
Progress(f, txs, height, indexed, mode) ==
  LET after[i \in 0 .. Len(txs)] ==
        IF i = 0 THEN [fsm |-> f, base |-> f, txs |-> <<>>, failed |-> {}, size |-> 0, oversize |-> FALSE]
        ELSE Step(after[i - 1], txs[i], height, indexed, mode)
  IN  after

ApplyTransactions(f, txs, height, indexed, mode) ==
  Unwrapped(Progress(f, txs, height, indexed, mode)[Len(txs)])

DistributeCommitteeRewards(f) == [AccountAdd(f, Recipient, f.fees) EXCEPT !.fees = 0]

\* A transaction that passes CheckTx is met a second time: an error of the block.
Duplicate(txs, height) ==
  \E i, j \in DOMAIN txs : i < j /\ txs[i] = txs[j] /\ CheckTx(txs[i], height)

\* ApplyBlock: the block with the transactions that were applied, and the
\* state machine it leaves.  allowOversize is the mempool's call; otherwise
\* a transaction that does not fit is an error, like a cancelled context
\* and a duplicate.
ApplyBlock(f, txs, height, indexed, mode, allowOversize, cancelled) ==
  LET Outcome(r, g) ==
        [error |-> \/ cancelled /\ txs # <<>>
                   \/ Duplicate(txs, height)
                   \/ r.oversize /\ ~allowOversize,
         block |-> [height |-> height, txs |-> r.txs, root |-> [acc |-> g.acc, fees |-> g.fees]],
         failed |-> r.failed,
         oversize |-> r.oversize,
         fsm |-> g]
      Finished(r) == Outcome(r, DistributeCommitteeRewards(r.fsm))
  IN  Finished(ApplyTransactions(f, txs, height, indexed, mode))
=============================================================================
