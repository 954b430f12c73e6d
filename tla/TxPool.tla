------------------------------- MODULE TxPool -------------------------------
(***************************************************************************)
(* The memory pool of pending transactions, FeeMempool of lib/mempool.go:  *)
(* a list sorted from the highest to the lowest fee and a count of bytes.  *)
(* The operators are pure; module Controller keeps the pool as a variable. *)
(*                                                                         *)
(* The lines 60 to 67 of lib/mempool.go, a fragment of DeleteTransaction   *)
(* pasted at the head of AddTransactions, name a variable that does not    *)
(* exist there, so the package does not compile with them; AddTransactions *)
(* is modelled without them.                                               *)
(***************************************************************************)
EXTENDS Integers, SequencesExt

CONSTANTS
  Txs,                  \* transactions, identified with their hash
  Tx,                   \* their contents: [from, to, amount, fee, size, kind, created]
  IllFormed,            \* the ones Unmarshal or CheckBasic refuses
  MaxTransactionCount,
  MaxTotalBytes,
  IndividualMaxTxSize,
  DropPercentage,
  MaxFee                \* math.MaxUint32: the rank of a certificate results transaction

ASSUME PoolAssumption ==
  /\ IllFormed \subseteq Txs
  /\ MaxTransactionCount \in Nat \ {0} /\ DropPercentage \in 1..100
  /\ MaxTotalBytes \in Nat /\ MaxFee \in Nat
  /\ \A t \in Txs : {Tx[t].amount, Tx[t].fee, Tx[t].size} \subseteq Nat
  /\ \A t, u \in Txs \ IllFormed : Tx[t].fee = Tx[u].fee => t = u

\* The bytes of the first transactions of a list, and of all of them.
Totals(s) ==
  LET total[i \in 0 .. Len(s)] == IF i = 0 THEN 0 ELSE total[i - 1] + Tx[s[i]].size
  IN  total

Bytes(s) == Totals(s)[Len(s)]

\* The list without the members of a set, transaction by transaction.
Remaining(s, txs) ==
  LET kept[i \in 0 .. Len(s)] ==
        IF i = 0 THEN <<>> ELSE IF s[i] \in txs THEN kept[i - 1] ELSE Append(kept[i - 1], s[i])
  IN  kept

Without(s, txs) == Remaining(s, txs)[Len(s)]

StoredFee(t) == IF Tx[t].kind = "certificateResults" THEN MaxFee ELSE Tx[t].fee

\* Wrong: the pool keeps the order of arrival.
InsertLast(p, new) == p \o Without(new, ToSet(p))

\* Fees differ (PoolAssumption), so the sort of both lists without their duplicates puts
\* each new transaction behind the ones that pay more.
Place(s, t) ==
  LET n == Cardinality({i \in DOMAIN s : StoredFee(s[i]) > StoredFee(t)})
  IN  IF t \in ToSet(s) THEN s ELSE SubSeq(s, 1, n) \o <<t>> \o SubSeq(s, n + 1, Len(s))

Inserted(p, new) ==
  LET sorted[i \in 0 .. Len(new)] == IF i = 0 THEN p ELSE Place(sorted[i - 1], new[i])
  IN  sorted

insert(p, new) == Inserted(p, new)[Len(new)]

numDrop(n) == LET d == (n * DropPercentage) \div 100 + 1 IN IF d >= n THEN n ELSE d

\* The loop that drops the lowest fees until the pool is within its limits.
\* A pool is determined by how many of its transactions are left.  It never
\* ends when the pool is empty and the count of bytes is still too high.
Overfull(p, bytes, n) == n >= MaxTransactionCount
                         \/ bytes - Bytes(SubSeq(p, n + 1, Len(p))) > MaxTotalBytes

Kept(p, bytes) ==
  LET left[n \in 0..Len(p)] == IF n > 0 /\ Overfull(p, bytes, n) THEN left[n - numDrop(n)] ELSE n
  IN  left[Len(p)]

\* The transactions of a batch that precede the first one that is refused.
\* A transaction in the pool already is skipped before it is parsed.
Accepted(p, batch) ==
  LET refused(t) == \/ Tx[t].size > IndividualMaxTxSize
                    \/ t \notin ToSet(p) /\ t \in IllFormed
      bad == {i \in DOMAIN batch : refused(batch[i])}
  IN  SubSeq(batch, 1, IF bad = {} THEN Len(batch) ELSE Min(bad) - 1)

AddTransactions(p, bytes, batch) ==
  LET new == Without(Accepted(p, batch), ToSet(p))
      counted == bytes + Bytes(new)
      all == insert(p, new)
      n == Kept(all, counted)
  IN  IF Len(Accepted(p, batch)) < Len(batch)
      THEN [pool |-> p, bytes |-> counted, hung |-> FALSE]
      ELSE [pool |-> SubSeq(all, 1, n),
            bytes |-> counted - Bytes(SubSeq(all, n + 1, Len(all))),
            hung |-> Overfull(all, counted, n)]

\* delete removes by hash, and returns the bytes it removed.
DeleteTransaction(p, bytes, txs) ==
  [pool |-> Without(p, txs), bytes |-> bytes - Bytes(Without(p, ToSet(p) \ txs))]
=============================================================================
