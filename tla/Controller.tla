----------------------------- MODULE Controller -----------------------------
(***************************************************************************)
(* One validator's controller between consensus and the state machine:     *)
(* controller/tx.go (mempool, cached proposal) and controller/block.go     *)
(* (produce, validate and commit).  Three threads share it:                *)
(*                                                                         *)
(*   consensus    holds the controller lock: ProduceProposal,              *)
(*                ValidateProposal, RoundInterrupt, and the block listener *)
(*                with CommitCertificate;                                  *)
(*   lazy check   holds Mempool.L: CheckMempool every few seconds;         *)
(*   transactions hold Mempool.L: HandleTransactions.                      *)
(*                                                                         *)
(* CommitCertificate takes both locks.  The proposal mode of both state    *)
(* machines is written by ValidateProposal and by the lazy check, each     *)
(* under its own lock only.                                                *)
(*                                                                         *)
(* The network is reduced to the blocks it proposes and the one block it   *)
(* certifies at a height, which is valid where every proposal is accepted. *)
(* Left out: the cached results and the cache of failed transactions, kept *)
(* for RPC, and gossip.                                                    *)
(***************************************************************************)
EXTENDS Execution

CONSTANTS
  Genesis,          \* the balances at FirstHeight
  FirstHeight,      \* 2: block 1 was empty
  MaxHeight,        \* bound on the heights that are committed
  Batches,          \* the transaction messages that are sent
  Selections,       \* the lists of transactions other leaders propose
  MaxMessages,      \* bound on the transaction messages handled
  MaxFailures       \* bound on the commits the database fails

ASSUME ControllerAssumption ==
  /\ FirstHeight \in Nat
  /\ Selections \subseteq Seq(Txs) /\ Batches \subseteq Seq(Txs)
  /\ Genesis \in [Accounts -> Nat] /\ Recipient \in Accounts
  /\ \A t \in Txs : Tx[t].from \in Accounts /\ Tx[t].to \in Accounts

VARIABLES
  pool, bytes,      \* FeeMempool.pool and txsBytes
  hung,             \* AddTransactions loops for ever, holding Mempool.L
  cached,           \* Mempool.cachedProposal: [block, oversize]
  height,           \* FSM.Height()
  committed,        \* the state of the last version of the store
  fsm,              \* c.FSM: the uncommitted state
  mode, poolMode,   \* proposeVoteConfig of c.FSM and of Mempool.FSM
  result,           \* Consensus.BlockResult: <<>> or <<block>>
  lock,             \* who holds the controller lock
  candidate,        \* the block under validation: <<>> or <<block>>
  lazy,             \* the lazy check, which holds Mempool.L unless idle
  cancelled,        \* whether the context of the lazy check is cancelled
  certified,        \* the block of this height a certificate arrived for: <<>> or <<block>>
  abandoned,        \* the blocks validated before this node led a later view
  chain,            \* the committed blocks
  messages,         \* the transaction messages handled
  failures,         \* the commits that failed in the database
  refused           \* history: whether a certified block was refused

poolVars == <<pool, bytes, hung, messages>>
lockVars == <<lock, candidate, lazy, cancelled>>
chainVars == <<height, committed, chain, certified, abandoned, failures, refused>>
vars == <<poolVars, lockVars, chainVars, cached, fsm, mode, poolMode, result>>

\* The bound on the heights: nothing starts after the last commit.
Running == Len(chain) < MaxHeight

Indexed == UNION {ToSet(chain[i].txs) : i \in DOMAIN chain}

\* FSM.Reset: the caches go, and the store is the last version again.
Clean == [acc |-> committed.acc, fees |-> committed.fees, cache |-> NoCache]

\* CheckMempool on a state machine that was just reset.
CheckPool(p, state, h, indexed, m, stopped) ==
  ApplyBlock([acc |-> state.acc, fees |-> state.fees, cache |-> NoCache], p, h, indexed, m, TRUE, stopped)

\* ApplyAndValidateBlock: no failed transaction, and the same header.
Apply(f, b, m) == ApplyBlock(f, b.txs, height, Indexed, m, FALSE, FALSE)

Valid(f, b, m) == LET r == Apply(f, b, m) IN ~r.error /\ r.failed = {} /\ r.block = b

\* The blocks other validators propose: well-formed, and valid for whoever
\* accepts all proposals.
Honest(txs) == ApplyBlock(Clean, txs, height, Indexed, AcceptAll, FALSE, FALSE).block

Proposals == {b \in {Honest(txs) : txs \in Selections} : Valid(Clean, b, AcceptAll)}

Init ==
  /\ pool = <<>> /\ bytes = 0 /\ hung = FALSE /\ messages = 0
  /\ height = FirstHeight
  /\ committed = [acc |-> Genesis, fees |-> 0]
  /\ fsm = [acc |-> Genesis, fees |-> 0, cache |-> NoCache]
  /\ cached = [block |-> CheckPool(<<>>, committed, height, {}, AcceptAll, FALSE).block, oversize |-> FALSE]
  /\ mode = AcceptAll /\ poolMode = AcceptAll
  /\ result = <<>> /\ candidate = <<>> /\ certified = <<>> /\ abandoned = {}
  /\ lock = "free" /\ lazy = "idle" /\ cancelled = FALSE
  /\ chain = <<>> /\ failures = 0 /\ refused = FALSE

----------------------------------------------------------------------------
(* Transactions and the lazy check, under Mempool.L                          *)

PoolLockFree == lazy = "idle" /\ ~hung

HandleTransactions(batch) ==
  /\ PoolLockFree /\ messages < MaxMessages /\ Running
  /\ messages' = messages + 1
  /\ LET r == AddTransactions(pool, bytes, batch)
     IN  pool' = r.pool /\ bytes' = r.bytes /\ hung' = r.hung
  /\ UNCHANGED <<lockVars, chainVars, cached, fsm, mode, poolMode, result>>

\* SetFSMInConsensusModeForProposals: the approve list, or none when the
\* chain seems halted.  It sets both state machines.
SetConsensusMode == \E m \in {ApproveList, RejectAll} : mode' = m /\ poolMode' = m

ResetMode == mode' = AcceptAll /\ poolMode' = AcceptAll

LazyBegin ==
  /\ PoolLockFree /\ Running
  /\ lazy' = "begun"
  /\ SetConsensusMode
  /\ UNCHANGED <<poolVars, chainVars, cached, fsm, result, lock, candidate, cancelled>>

\* CheckMempool: caches the proposal and evicts what failed; nothing of this
\* when it was stopped.
LazyCheck ==
  /\ lazy = "begun"
  /\ lazy' = "checked"
  /\ LET r == CheckPool(pool, committed, height, Indexed, poolMode, cancelled)
         d == DeleteTransaction(pool, bytes, r.failed)
     IN  IF r.error
         THEN UNCHANGED <<cached, pool, bytes>>
         ELSE /\ cached' = [block |-> r.block, oversize |-> r.oversize]
              /\ pool' = d.pool /\ bytes' = d.bytes
  /\ UNCHANGED <<hung, messages, chainVars, fsm, mode, poolMode, result, lock, candidate, cancelled>>

\* Wrong: the lock is released before the mode is reset.
LazyUnlock ==
  /\ lazy = "checked"
  /\ lazy' = "idle" /\ cancelled' = FALSE
  /\ UNCHANGED <<poolVars, chainVars, cached, fsm, mode, poolMode, result, lock, candidate>>

\* The deferred calls run in reverse order: the mode first, then the lock.
LazyEnd ==
  /\ lazy = "checked"
  /\ lazy' = "idle" /\ cancelled' = FALSE
  /\ ResetMode
  /\ UNCHANGED <<poolVars, chainVars, cached, fsm, result, lock, candidate>>

----------------------------------------------------------------------------
(* Proposals, under the controller lock                                      *)

\* The leader sends the cached block.  It leads only when no validator of a
\* quorum is locked, so what it validated in an earlier view can no longer be
\* certified (BFT, LaterProposalsSafe).
ProduceProposal ==
  /\ lock = "free" /\ certified = <<>> /\ Running
  /\ fsm' = Clean
  /\ abandoned' = abandoned \cup ToSet(result)
  /\ UNCHANGED <<poolVars, lockVars, height, committed, chain, certified, failures, refused,
                 cached, mode, poolMode, result>>

ValidateBegin(b) ==
  /\ lock = "free" /\ Running
  /\ lock' = "validate" /\ candidate' = <<b>>
  /\ fsm' = Clean
  /\ SetConsensusMode
  /\ UNCHANGED <<poolVars, chainVars, cached, result, lazy, cancelled>>

\* The end of ValidateProposal, and the interrupt of the round when it fails.
ValidateEnd ==
  /\ lock = "validate"
  /\ lock' = "free" /\ candidate' = <<>>
  /\ IF Valid(fsm, candidate[1], mode)
     THEN result' = candidate /\ fsm' = Apply(fsm, candidate[1], mode).fsm
     ELSE result' = <<>> /\ fsm' = Clean
  /\ ResetMode
  /\ UNCHANGED <<poolVars, chainVars, cached, lazy, cancelled>>

\* Wrong: the result of the interrupted round is kept.
InterruptKeepsResult ==
  /\ lock = "free" /\ result # <<>> /\ Running
  /\ fsm' = Clean
  /\ UNCHANGED <<poolVars, lockVars, chainVars, cached, mode, poolMode, result>>

RoundInterrupt ==
  /\ lock = "free" /\ result # <<>> /\ Running
  /\ result' = <<>> /\ fsm' = Clean
  /\ UNCHANGED <<poolVars, lockVars, chainVars, cached, mode, poolMode>>

----------------------------------------------------------------------------
(* HandlePeerBlock and CommitCertificate, under both locks                   *)

\* A block with its certificate arrives, the same again after a commit that
\* failed.  The running check is stopped before Mempool.L is taken.
CommitBegin(b) ==
  /\ lock = "free" /\ Running
  /\ b \notin abandoned /\ certified \in {<<>>, <<b>>}
  /\ lock' = "commit" /\ certified' = <<b>>
  /\ cancelled' = (lazy # "idle")
  /\ UNCHANGED <<poolVars, height, committed, chain, abandoned, failures, refused,
                 cached, fsm, mode, poolMode, result, lazy, candidate>>

CommitReady == lock = "commit" /\ PoolLockFree

\* The block is applied, unless the cached result is of this very block.
Precalculated == result = certified

BlockApplied == IF Precalculated THEN fsm ELSE Apply(Clean, certified[1], mode).fsm

BlockRefused == ~Precalculated /\ ~Valid(Clean, certified[1], mode)

RefuseBlock ==
  /\ lock' = "free" /\ refused' = TRUE
  /\ fsm' = Clean
  /\ UNCHANGED <<poolVars, height, committed, chain, certified, abandoned, failures, cached,
                 mode, poolMode, result, lazy, candidate, cancelled>>

\* The check of the pool on the copy of the new state machine, which accepts
\* all proposals.
Recheck(p, n, state) == CheckPool(p, state, n, Indexed \cup ToSet(certified[1].txs), AcceptAll, FALSE)

CommitBlock ==
  /\ LET state == [acc |-> BlockApplied.acc, fees |-> BlockApplied.fees]
         d == DeleteTransaction(pool, bytes, ToSet(certified[1].txs))
         r == Recheck(d.pool, height + 1, state)
         e == DeleteTransaction(d.pool, d.bytes, r.failed)
     IN  /\ committed' = state
         /\ fsm' = [acc |-> state.acc, fees |-> state.fees, cache |-> NoCache]
         /\ cached' = [block |-> r.block, oversize |-> r.oversize]
         /\ pool' = e.pool /\ bytes' = e.bytes
  /\ chain' = Append(chain, certified[1])
  /\ height' = height + 1
  /\ ResetMode
  /\ certified' = <<>> /\ abandoned' = {}
  /\ lock' = "free"
  /\ UNCHANGED <<hung, messages, result, lazy, candidate, cancelled, failures, refused>>

CommitCertificate == CommitReady /\ (IF BlockRefused THEN RefuseBlock ELSE CommitBlock)

\* An error of the database: at the index before the transactions leave the
\* pool, or at the write of the batch after.  The deferred Reset runs, and
\* the block is offered again by a peer.
CommitFails ==
  /\ CommitReady /\ ~BlockRefused /\ failures < MaxFailures
  /\ failures' = failures + 1
  /\ fsm' = Clean
  /\ lock' = "free"
  /\ \/ UNCHANGED <<pool, bytes>>
     \/ LET d == DeleteTransaction(pool, bytes, ToSet(certified[1].txs))
        IN  pool' = d.pool /\ bytes' = d.bytes
  /\ UNCHANGED <<hung, messages, height, committed, chain, certified, abandoned, refused, cached,
                 mode, poolMode, result, lazy, candidate, cancelled>>

Next ==
  \/ \E batch \in Batches : HandleTransactions(batch)
  \/ LazyBegin
  \/ LazyCheck
  \/ LazyEnd
  \/ ProduceProposal
  \/ ValidateBegin(cached.block)
  \/ lock = "free" /\ Running /\ \E b \in Proposals : ValidateBegin(b) \/ CommitBegin(b)
  \/ ValidateEnd
  \/ RoundInterrupt
  \/ CommitCertificate
  \/ CommitFails

Spec == Init /\ [][Next]_vars

----------------------------------------------------------------------------
(* Properties                                                                *)

Block == [height : Nat, txs : Seq(Txs), root : [acc : [Accounts -> Nat], fees : Nat]]

\* Types, and the exclusion of the two locks: a commit holds both.
TypeOK ==
  /\ pool \in Seq(Txs \ IllFormed) /\ bytes \in Nat /\ hung \in BOOLEAN
  /\ cached.block \in Block /\ cached.oversize \in BOOLEAN
  /\ committed \in [acc : [Accounts -> Nat], fees : Nat]
  /\ fsm.acc \in [Accounts -> Nat] /\ fsm.fees \in Nat /\ DOMAIN fsm.cache \subseteq Accounts
  /\ {mode, poolMode} \subseteq Modes
  /\ \A s \in {result, candidate, certified} : s = <<>> \/ s[1] \in Block
  /\ lock \in {"free", "validate", "commit"} /\ lazy \in {"idle", "begun", "checked"}
  /\ chain \in Seq(Block) /\ height = FirstHeight + Len(chain)

\* The pool is sorted by fee and without duplicates, its count of bytes never
\* falls below what it holds, and it is within its limits whatever batches,
\* evictions, commits and failed commits came before (AddTransactions).
PoolBounded ==
  /\ \A i, j \in DOMAIN pool : i < j => StoredFee(pool[i]) >= StoredFee(pool[j]) /\ pool[i] # pool[j]
  /\ Bytes(pool) <= bytes
  /\ ~hung => Len(pool) < MaxTransactionCount /\ Bytes(pool) <= MaxTotalBytes

\* The block a leader would propose was built for this height on the
\* committed state: whoever accepts its governance proposals computes its
\* root again, with no failed transaction.  Blocks cached while transactions
\* did not fit are excepted: their root may hold accounts that only the
\* excluded transactions changed (see the README).
ProposalReproducible == ~cached.oversize => Valid(Clean, cached.block, AcceptAll)

\* The lazy check and ValidateProposal leave the state machine accepting all
\* proposals whenever a commit applies a block, so a certified block is never
\* refused, whatever this node thinks of its proposals.
CertifiedNotRefused == ~refused

\* The state a block leads to on a node that has not seen any other, and the states a list
\* of blocks leads to.
Executed(q, b) ==
  LET r == ApplyBlock([acc |-> q.acc, fees |-> q.fees, cache |-> NoCache],
                      b.txs, b.height, {}, AcceptAll, FALSE, FALSE)
  IN  [acc |-> r.fsm.acc, fees |-> r.fsm.fees]

States(s) ==
  LET state[i \in 0 .. Len(s)] ==
        IF i = 0 THEN [acc |-> Genesis, fees |-> 0] ELSE Executed(state[i - 1], s[i])
  IN  state

Replay(s) == States(s)[Len(s)]

\* The committed state is the one the committed blocks lead to from genesis,
\* also when the commit used the state a validation left behind instead of
\* applying the block (BlockResult), as long as no commit failed in between (see
\* the README for a commit that is tried again).
StateIsReplay == failures = 0 => committed = Replay(chain)

\* No transaction is in a list twice.
Distinct(s) == \A i, j \in DOMAIN s : i < j => s[i] # s[j]

\* No transaction is committed twice, in two blocks or in one, however often it is sent again.
NoTxTwice ==
  /\ \A i, j \in DOMAIN chain : i # j => ToSet(chain[i].txs) \cap ToSet(chain[j].txs) = {}
  /\ \A i \in DOMAIN chain : Distinct(chain[i].txs)

\* Both state machines accept all proposals unless a validation or a lazy check is under way
\* (SetFSMInConsensusModeForProposals and the deferred resets).
ModeReset == lock # "validate" /\ lazy = "idle" => mode = AcceptAll /\ poolMode = AcceptAll

\* A commit has a certified block, and the state it was built on stays until it is committed:
\* the block is valid for a node that accepts all proposals (CommitCertificate).
CertifiedValid ==
  /\ lock = "commit" => certified # <<>>
  /\ certified # <<>> => Valid(Clean, certified[1], AcceptAll)

\* The state is well formed, the mempool keeps its order and its limits, whatever
\* batches, evictions, commits and failed commits came before (AddTransactions, tx.go), and
\* a commit finds a mode and a state that its block was made for.
ControllerInv == TypeOK /\ PoolBounded /\ ModeReset /\ CertifiedValid

\* The committed chain is a history that any node can replay: its state is the one its blocks
\* lead to, and none of its transactions is in it twice.
ChainReplayable == StateIsReplay /\ NoTxTwice
=============================================================================
