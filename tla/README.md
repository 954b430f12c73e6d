# A TLA+ verification of the Canopy node

This directory models the node that the repository builds: a Go implementation of
the Canopy blockchain (`bft`, `controller`, `fsm`, `store`, `p2p`, `lib`), and the
Hunters application that sits on top of it (`canopy-server.js`, `routes/`).
Consensus, the token ledger, the two-chain exchange and order book, block execution
with the mempool, syncing, the store and the peer set are modelled and model-checked;
what validators sign, lock, propose and decide, the supply and the validator records, the
versions of the store, the hand-over between syncing and consensus, the peer sessions and
the acceptance of certified blocks are proved for every size of the system.

## 1. The system

| part | state it keeps | operations | how it meets the others |
|---|---|---|---|
| NestBFT (`bft/`) | view (height, root height, round, phase), proposer, block, lock (`HighQC`), stores of votes, leader messages and pacemaker messages, phase timer, `ResetBFT` channel | one handler per phase, `HandleMessage`, `NewRound`, `NewHeight`, `Pacemaker`, `SafeNode` | runs under the controller's lock; asks the controller to produce, validate, gossip and commit blocks |
| Election (`bft/election.go`) | candidates of a round | sortition by VRF, weighted fallback | gives each replica the leader it votes for |
| Evidence (`bft/evidence.go`, `fsm/byzantine.go`) | partial certificates, double-sign evidence, non-signer counters | collect, check, slash | carried by votes and certificate results |
| Controller (`controller/`) | `isSyncing`, root-chain information, inboxes, sync queue, cached proposal, last block result | `ListenForConsensus`, `ListenForBlock`, `Sync`, `UpdateRootChainInfo`, `ProduceProposal`, `ValidateProposal`, `CommitCertificate`, `CheckMempool` | owns the lock that every part below it uses |
| State machine (`fsm/`) | accounts, pools, supply, validators, committees, orders, DEX batches, parameters | `ApplyBlock`: begin block, transactions, end block | reads and writes through `store` |
| Store (`store/`) | versioned key/value data, state tree (SMT), indexer | nested transactions, commit, rollback, read-only views, root, proofs | one version per height |
| Mempool (`lib/mempool.go`) | transactions ordered by fee | add, evict, recheck | builds the proposal that `ProduceProposal` takes |
| P2P (`p2p/`) | peer set, failed peers, connections, address book | dial, handshake, multiplexed streams, gossip, reputation | unreliable delivery to the controller's inboxes |
| Plugin (`lib/plugin.go`, `plugin/`) | pending requests | request and response over a socket | called by the state machine |
| Shells (`cmd/`) | none of their own, except the updater | RPC, CLI, auto-update | call the parts above |
| Hunters application | JSON files, RPC client | token routes, posts and likes | talks to the node's RPC |

### What is hard in it

* Consensus: each validator runs three threads (timers, message inbox, block inbox)
  under one lock, and a message is checked outside that lock.  Votes and leader
  messages are lost, delayed and repeated.  A root-chain update takes a validator out
  of the middle of a round back to round 0 of a new root height without clearing its
  lock; a block that arrives takes it to the next height, but the reset for it is
  handled later, so handlers run in between with the view of one height and the state
  machine of the next.  A restarted validator remembers its chain and nothing else.
* Two chains: a nested chain reads the root chain at a height its proposer chooses and
  answers through certificates that are delayed, reordered or lost.  Each chain mirrors
  the other's pool and shares without asking, and a batch that stays unanswered is
  given up while its receipts may be on their way.
* Execution: consensus, the lazy mempool check and incoming transactions share state
  machines, a voting mode and a cached proposal under two different locks; the result
  of a validation is reused by a later commit.
* Syncing: two goroutines take turns at one inbox, requests time out while answers are
  on their way, and whoever resets consensus writes to a bounded channel with the lock
  in its hands that the channel's reader needs.
* Store: one batch holds the latest state, the history, the tree and the commit id, is
  not synced, and can be lost in a crash or rolled back; readers take no lock; the tree
  postpones hashing along shared prefixes.
* Peers: nodes dial each other at the same time and each decides alone which session to
  keep, while errors of replaced sessions arrive late.

`PROJECT.json` lists each such hazard at its line, with the properties that would catch
it.  What makes each part correct:

* consensus: no two validators commit different blocks at a height; a lock protects
  what may have been committed; an honest validator never signs what the evidence
  punishes; a height is decided once the network is timely;
* ledger: supply equals accounts, pools and stakes after every block; a slash, a swap
  or a DEX batch moves tokens and creates none; stake, pause and unstake indexes agree
  with the validator records;
* exchange and order book: an order is settled the same way on both chains, escrow and
  holding cover what is pending, only who paid is paid, and what can stop the chain is
  known;
* execution: a proposal can be reproduced, a certified block is never refused, the
  committed state is the replay of the chain, no transaction is committed twice;
* syncing: one reader of the inbox, no circular wait, consensus follows the chain, a
  node that is behind catches up;
* store: the latest state is the newest view of the history, no committed version
  changes, the root depends on the contents only, proofs show what is stored, a reader
  sees the version it asks for;
* mempool: order by fee, bounds on count and bytes;
* peers: sessions in the peer set are live, none leaks, committee members end up
  connected.

## 2. Plan

Order of work, the most important behaviour first.  Done:

1. consensus: `BFT`, its abstraction `BFTVoting`, the promise `Decision`, progress in
   `BFTLiveness`; agreement proved in `BFTVotingProofs` for the abstraction and in
   `BFTProofs` for the detailed model, with its votes, locks and proposals;
2. the ledger: accounts, pools, stakes, supply, rewards and slashes in `Ledger`; records,
   height indexes, slashes, supply and balances proved in `LedgerProofs`, over `Sums`;
3. the two-chain exchange and order book: `Dex`, `Swap`, composed in `CrossChain`;
4. the store: `StateTree` and `Store`, the tree against a reference definition; the
   versions proved in `StoreProofs`;
5. block execution and mempool: `TxPool`, `Execution`, composed in `Controller`; the
   acceptance of certified blocks, the replay of the chain, the cached proposal and the order
   and limits of the pool proved in `ControllerProofs`;
6. syncing: `Sync`, with the lock and the channel it shares with consensus; proved in
   `SyncProofs`;
7. the peer set: `P2P`; proved in `P2PProofs`.

Left, in this order:

* consensus: that a step of the detailed `BFT` is a step of `BFTVoting`, from the invariants
  of `BFTProofs`;
* the two chains: the sums of `PendingCovered` and `TokensAccounted` with the lemmas of
  `Sums`;
* vesting (`fsm/account.go`) with its 64-bit arithmetic, parameter changes (`fsm/gov.go`);
* streams and packets, directional limits and the address book of `p2p`;
* the plugin protocol, the collection of double-sign evidence, the root-chain
  subscriptions (`cmd/rpc/sock.go`).

## 3. Modules

| module | what it is |
|---|---|
| `BFT` | the phase handlers, resets and controller steps of every validator, with an unreliable network |
| `BFTVoting` | one height of it reduced to votes and locks; the inductive invariant |
| `Decision` | what consensus promises about a height |
| `BFTRefinement` | refinement mapping from `BFT` to `BFTVoting` |
| `BFTLiveness` | `BFT` with timely rounds and fairness |
| `BFTVotingProofs` | theorems about `BFTVoting` |
| `BFTProofs` | theorems about `BFT` |
| `Ledger` | the state machine's token ledger and validators, block by block |
| `LedgerProofs` | theorems about `Ledger` |
| `Sums` | theorems about the sum of a finite function, for `LedgerProofs` and `BFTProofs`, and the least number principle |
| `Dex`, `Swap` | the batch exchange and the order book, as operators on one chain's state |
| `CrossChain` | a root chain and a nested chain that exchange them through certificates |
| `StateTree` | the sparse Merkle tree and its proofs, as operators on a node table |
| `Store` | nested transactions, versions, commit, crash, rollback and readers over it |
| `TxPool` | the mempool, as operators on a sorted list |
| `Execution` | how a block is executed over store, caches and rollbacks |
| `Controller` | propose, validate, commit and recheck over one mempool and state machine |
| `Sync` | downloading and following the chain, and the reset of consensus |
| `P2P` | the peer sets of nodes that dial each other |
| `StoreProofs`, `ControllerProofs`, `SyncProofs`, `P2PProofs` | theorems about these four |
| `MC...` | small instances of the above for TLC |

The chain is: `BFT` implements `BFTVoting` (TLC), `BFTVoting` implements `Decision`
(TLC and proved), and both `BFTVoting` and `BFT` satisfy `Agreement` (TLC and proved, each
on its own).  The other modules
meet at named interfaces: `BFT` leaves open what `Controller` decides (which block is
proposed, whether it is accepted), `Controller` leaves open what `BFT` guarantees (one
certified block per height), `Execution` treats messages as transfers whose effects
`Ledger`, `Dex` and `Swap` describe, `Store` treats a block as a set of writes.

### BFT and the code

One step is one critical section of the controller's lock.

| variable | code |
|---|---|
| `view`, `proposerKey`, `block`, `blockHash`, `highQC`, `rcBuildHeight` | the fields of `BFT` of these names (`block` is `Block` and `Results`, always assigned together) |
| `msgs`, `epochs`, `carried` | the network and the stores `Votes`, `Proposals`, `PacemakerMessages` |
| `timer` | `PhaseTimer` is running |
| `resets`, `overtaken` | the `ResetBFT` channel |
| `syncing`, `rootHeight`, `chain` | `isSyncing`, `RCManager.GetHeight`, the indexed certificates |

The actions `StartElectionPhase` to `StartCommitProcessPhase` and `Pacemaker` are the
handlers of these names, with every early return.  `RoundInterrupt` includes the
step from ROUND-INTERRUPT to PACEMAKER, which does nothing but wait.  `ResetBFT` is
the second case of the loop of `Start`; `AdoptHighQC` is `AddVote` for a vote with a
higher lock; `HandlePeerBlock`, `StartSync`, `SyncBlock`, `FinishSync`,
`UpdateRootChainInfo` and `Restart` are the controller's.

A vote or leader message that is only stored is not a step.  The handler that reads
the store picks from everything sent the messages that could be in it: those that
pass the checks of `msg.go` for a height and root height the node has had since the
stores were last cleared (`epochs`).  `carried` is the one message that can be in the
store without passing: `HandleMessage` reads the heights, releases the lock, checks,
and takes the lock again to store, so that a reset may come in between.  Constant
`Preempted` names the validators to which this may happen.

What is abstracted:

* hashes are injective; an aggregate signature is valid when its votes exist;
* which candidate a replica elects is open: any member of `Candidates[round]`;
* `ProduceProposal` returns any of `Proposals`, built at any root height known so
  far (the mempool caches it), or fails; `ValidateProposal` accepts or fails, after
  its height checks;
* the committee is the same at every root height, never empty, and the root chain
  stays active, so the early return and the `IsRootChainUpdate: false` branch of
  `UpdateRootChainInfo` are not taken;
* `syncDetector`, which asks for blocks of later heights from several peers before
  syncing, is an open choice; a sync copies blocks of one peer at a time;
* VDF, evidence, metrics and logging are left out;
* validators follow the code.  Byzantine validators are not modelled, but crash and
  loss of memory are (`Restartable`).

`MaxOvertake` bounds how many phase handlers run while a reset waits in the channel.
Go selects at random between an expired timer and a waiting reset, but the handler
sets a new timer, of seconds, and while it runs only the reset can be chosen; so it
is at most 1, and 1 in all runs.  `Pacemaker` is not counted: it waits for nothing before
the ELECTION handler (`bft/bft.go:745`), which may therefore overtake the same reset.  What
this takes from the code is that a handler ends before the timer it sets.

### BFTVoting and BFT

A view is a root height and a round.  A validator in `Forgetful` may restart: it may
vote again in a view and without its lock.  `BFTRefinement` maps the messages of
height 1 to the vote sets, `chain` to `committed` and `view.height > 1` to `left`.
Later heights start from cleared stores and are the same protocol.

### Ledger and the code

The state machine is sequential: a block is `BeginBlock`, transactions, `EndBlock`, and
its loops are unrolled into steps that nothing can come between.

| variable | code |
|---|---|
| `accounts`, `pools` | the balances under the account and pool prefixes |
| `validators`, `stakedAmount` | the `Validator` records; the amount is kept apart |
| `supply` | the supply tracker: total, staked, delegated, and both per committee |
| `unstakingKeys`, `pausedKeys` | the keys of `KeyForUnstaking` and `KeyForPaused` |
| `nonSigners`, `doubleSigners` | the `NonSigner` records, the index of double signers |
| `slashTracker` | the field of this name, new with every block |
| `committeeData` | `CommitteeData`, last checkpoint and retirement of each committee |
| `committees` | what `LoadCommittee` returns for each height |
| `pending`, `payouts`, `paid`, `phase` | where the loops of the block are |

`BeginBlock` mints and handles the certificate of the last block; `CertificateResults`
is the transaction that brings those of other committees.  Both leave their slashes in
`pending`, to be taken one by one by `SlashNonSigner` and `SlashDoubleSigner` before
anything else.  `Send`, `Stake`, `EditStake`, `Unstake`, `Pause`, `Unpause`, `Subsidy`
and `DAOTransfer` are the message handlers with the fee before them.
`DistributeCommitteeReward`, `CloseRewardPool`, `ForceUnstakeMaxPaused` and
`DeleteFinishedUnstaking` are the steps of `EndBlock`; `Commit` starts the next block.

A transaction that fails is rolled back and is no step.  A failing `BeginBlock` or
`EndBlock` fails the block: the model has no step there.

What is abstracted: addresses are numbers in the order of their bytes; signatures are
the set of addresses that may sign; a certificate is any record signed by +2/3 of its
committee, and the double signs in it are those `ProcessDSE` accepts, of members of the
committee at that height.  The governance parameters do not change, and satisfy
`ValidatorParams.Check` (`ParamsAssumption`).  Amounts are unbounded numbers: sums that
would overflow 64 bits are out of reach of a supply that fits.  `CommitteeScoped` is
protocol version 2.  Swaps and DEX batches are in `CrossChain`; vesting and plugins are
left out.

### CrossChain and the code

`Dex` and `Swap` translate `fsm/dex.go` and `fsm/swap.go` with their message handlers as
operators on the part of a chain's state they own; `CrossChain` runs a root chain and one
nested chain on them.

| variable | code |
|---|---|
| `market[c]` | accounts, holding and liquidity pool with its points, locked and next batch of chain `c` |
| `book` | the root's order book with its escrow pool |
| `rootHist` | the root's state at each height, as the nested chain can ask for it |
| `committee` | `LastRootHeightUpdated` and `LastChainHeightUpdated` of `CommitteeData` |
| `nested`, `lastCert`, `blocks` | the nested block under construction (`back` is a history: whether a block was built on an older root height than the one before it while orders exist), the last certificate's `RootDexBatch`, the blocks with their payments |
| `certs` | certificate transactions on their way |

`NestedBegin` is `BeginBlock` of a nested block: the batch of the last certificate gates
it, and unless that is flagged as a fallback the batch that is executed is the cached one
of this block's `rcBuildHeight`.  `NestedEnd` is `EndBlock` with `IncludeSameBlockDex` and
the certificate that `HandleDex` and `HandleSwaps` write: batches at their trigger, the
fallback when a batch is too old, and locks, resets and closes from the blocks parsed now
and again later.  `DeliverCertificate` is the transaction on the root, accepted when its
heights are newer, with the exchange first and the orders after it.  A certificate may
never be delivered, or after a later one (and is then refused).

Abstracted: the root answers every read; a batch's hash is its chain and the height at
which it was locked; the block counts 5 and 60 of the trigger and the fallback, and 11 to 15 of
the blocks that are parsed again, are constants.  Orders of a batch are executed in an
order given by a hash: any order.  The cap `MaxLiquidityProviders` is met in the run, on
acceptance and on execution (`capped`); a nested chain whose `BeginBlock` fails has `halted`
and takes no further step.  Genesis either seeds the pools or leaves them empty
and gives accounts for the order book.

### Store and the code

| variable | code |
|---|---|
| `db` | what pebble holds: latest state (LSS), history (HSS), tree, index, commit ids |
| `wal` | states that a crash may fall back to, because `Commit` applies with `NoSync` |
| `version`, `ops`, `txns`, `sc`, `batch` | `Store.version`, the pending writes, the nested transactions, the tree of `Root`, the batch being built |
| `reader` | a request of `NewReadOnly`: its snapshot of the history, tree and index (`ReadOnlyHss`), the comparison of versions (`ReadOnlyCompare`), its snapshot of the latest state (`ReadOnlyLss`) |

`StateTree` translates `Set`, `Delete`, `Commit`, the postponed rehash, `GetMerkleProof`
and `VerifyProof`; a hash is the tuple of what is hashed.  `IterationExact` runs the
iterators of `txn.go` and `versioned_store.go` over every stack of transactions that is
reached.  `RootOfContents` compares the incremental tree with a definition of the tree by
its leaves.  Left out: compaction, backup, byte layout, and the commit of eight subtrees
in parallel, which partitions the same operations; the indexer is a set of heights.  `reader`
has the state, the tree and the index of the store that `NewReadOnly` returns; its tree is
`CommitmentTree`, an empty one, because nothing is written under the prefix it is read from
(section 5).  `overtaken` is a history: whether a commit was applied between the comparison
and the last snapshot.  Errors of pebble are left out: when `db.Apply` fails (`store.go:270`)
the version has been counted up already and the batch is kept.

### Controller and the code

`TxPool` is `FeeMempool`, `Execution` is `ApplyBlock` with its account cache, rollback of
failed transactions and oversize rule, and `Controller` the threads that share them:
`HandleTransactions`, the lazy check (`LazyBegin`, `LazyCheck`, `LazyEnd`, because it
changes the voting mode at both ends), `ProduceProposal`, `ValidateBegin`/`ValidateEnd`,
`RoundInterrupt`, `CommitBegin`, `CommitCertificate` and `CommitFails`.  `result` is
`Consensus.BlockResult`, which lets a commit skip the execution of a block that was
validated before.  `Duplicate` is the check for a transaction that is twice in a block, an
error of the whole block; the pool has no duplicates (`PoolBounded`), and of the lists that
other leaders may choose from one has.

Left out of `Valid`: `CheckAndSetLastCertificate` (`block.go:473`), as the model's blocks
follow each other, and the check of the VDF, made at random on a commit (`block.go:504`);
`CertifiedNotRefused` is about the other reasons to refuse a block.  `CommitFails` has the
errors up to the write of the store; those of `fsm.New` and `Copy` after it
(`block.go:299`), where the store is a version ahead of the controller, are not modelled.

The environment: one block is certified per height, and not one that this node validated
before it led a later view without a lock (`abandoned`).  The first is `Agreement` and the
second `LaterProposalsSafe` of `BFT`.  Messages are transfers, a governance proposal, a
certificate and an ill-formed one; what messages do beside a transfer is in the other
modules.

### Sync and the code

The Sync goroutine, `ListenForBlock`, the consensus loop and the root-chain updates, with
the Block inbox, the lock and the `ResetBFT` channel between them.

| variable | code |
|---|---|
| `height`, `bftHeight`, `isSyncing` | `FSM.Height`, the height of the consensus view, the flag |
| `requests`, `inbox`, `peerHeight` | the network and the peers' chains |
| `syncer`, `queue`, `maxHeight`, `sent` | where `Sync` is, its queue, the height to reach, its limiter |
| `listening`, `cache`, `tracker` | `ListenForBlock`, its message cache and the tracker of higher blocks |
| `resets`, `updates`, `loop`, `overtaken`, `sender` | the channel, the loop and who waits for whom |

A fault is a lost request, answer or gossip, an overflow of the inbox, a time-out that
comes early or a block that cannot be handled at the first attempt.  A goroutine waiting
for the lock is overtaken at most once: a Go mutex hands over to a waiter that starves.
A buffer of one more than the root-chain updates that may come while the loop is busy is
enough for `NoCircularWait`; the code has 100.  VDF iterations and reputation do not
choose among peers of one chain and are left out; `Alone` is the single-validator start.
Errors of `SendTo` are lost requests.  `ReceiveBlock` handles all blocks of the queue that are
ready in one step, where the code takes the lock for each (`consensus.go:160`): only this
goroutine uses the queue, but what other threads see between two of the blocks, and the part
that is done before one that fails, are not told apart.

### P2P and the code

`conns` are the connections with an end at each node (`stage` of `NewConnection` and
`AddPeer`, `open` until `Stop`, `error` from `hasError` to the end of the callback),
`peers` is `PeerSet.m`, `failedPeers` the map of that name, `forgetting` the pending
`Delete` after a dial, `dialing` the goroutines of `DialWithBackoff`.  The actions are
`DialWithBackoff`, `DialFailedPeers`, `ForgetFailed`, `DialAndDisconnect` (churn),
`UpdateMustConnects`, and for an end of a connection `Handshake`, `AddPeer`, `Error` and
`OnPeerError`; `BreakLink` and `Restart` are faults, as are a failed handshake, a churn
dial, and a dial of one node that overlaps its earlier one.

Both nodes are committee members throughout, so limits on directions do not apply and
`DialFailedPeers` never finds a peer it need not redial.  `DialForOutboundPeers` is an
attempt of `DialWithBackoff` that is not repeated.  A refused TCP connection is no step.
`AddPeer` stops the session it replaces within its critical section, where the code does so
after the unlock (`p2p.go:454`), and `OnPeerError` merges the removal under the lock, the entry
in `failedPeers` and the `Stop` that follow it (`p2p.go:513`): the moments in which a replaced or
failed session is still open outside of the peer set are not seen.  A public key other than
the expected one (`p2p.go:371`) cannot come from the two nodes, and the errors of the limits do
not concern committee members.
Left out: address book, encryption, banned addresses, reputation, packets.

## 4. Runs

| run | instance | states | what it shows |
|---|---|---|---|
| `rounds` | 3 validators of power 2, 1, 1; 2 rounds with leaders b, c; 2 blocks | 267,000 | what may have been committed in round 0 is what is proposed later, locks are released only with justification and never lost, no double signing, agreement |
| `heights` | 2 validators, 2 heights and 2 root heights in round 0 with syncing; or 2 rounds and a restart at one height (`Scope`) | 358,000 | locks survive root-chain updates and resets; every step, restarts and moves to a new view in mid-round included, is a step of `BFTVoting` |
| `liveness` | 3 validators, round 0 unreliable, round 1 timely | 39,000 | everyone commits, whatever locks round 0 leaves |
| `voting` | quorums of powers 2, 1, 1; 2 views with leaders a, c; b may restart at any time | 553,000 | the inductive invariant, agreement, `Decision` is implemented |
| `lifecycle` | 2 validators with stakes 10 and 4, a fee of 1, 6 blocks, windows of 2, one double signer, a faucet | 160,000 | stake, edit, pause, unpause, release, forced unstake, missed signatures, slashes and ejection in every order: the supply tracker and the indexes agree with the records, slashes stay in their limit |
| `rewards` | a validator and a compounding delegate in 2 committees, 3 blocks, 20 tokens a block with a halving | 182,000 | no balance runs short, rewards fit their pools, what is not paid is burned |
| `store` | 3 keys of 3 bits, 2 versions, 3 pending writes, 2 nested transactions | 303,000 | versions, tree, proofs, iterators and readers agree through commits, crashes and rollbacks |
| `crosschain` | 4 blocks on each chain; a trader with 3 operations or two depositors at a cap of 2 providers, or the order book with an order of 2 prices, 2 sellers to pay, 2 buyers, 4 operations and a deadline of 2 blocks | 600,000 | tokens, mirrored pools and shares, settlement on both chains, escrow, payments; only the cap halts the nested chain |
| `replay` (violation) | the same | 3,000 | a node that replays a block with the batch of its certificate differs from the validators (section 5) |
| `mempool` | 5 transactions, pool of 4 slots and 4 bytes, blocks of 3 bytes, 2 heights, 1 failed commit | 638,000 | proposals can be reproduced, certified blocks are not refused, the chain can be replayed, the pool keeps its limits |
| `sync` | 2 answering and 2 silent peers, 4 heights, queue and inbox of 2, 1 fault | 399,000 | one reader, no circular wait, consensus follows the chain, the node catches up |
| `peers` | 2 nodes, 2 connections, 1 fault | 335,000 | sessions are accounted for, duplicates converge, the nodes end up connected |

An invariant that conjoins named parts (`VersionsIntact`, `SyncInv`, `SessionsTracked`,
`PendingCovered`, `TokensAccounted`, `ControllerInv`, `ChainReplayable`, `SupplyTracked`,
`BalancesCovered`, `Inv`) is documented at each part.

Why the bounds are enough to be interesting.

* Consensus: with powers 2, 1, 1 two of the quorums differ in one validator each, so a
  round can lock one validator, decide without the other, and be followed by a round led
  by the one left out; two rounds are what a lock needs to be challenged.  Two heights and
  two root heights let every reset arrive in every phase.  Two validators of equal power
  are the smallest committee in which both quorum members matter.  At the heights of the runs
  `LastRootHeightUpdated` is still 0, as the committee data is that of the certificate two
  heights before: its refusals are in the proofs only.  `Scope` keeps `heights`
  finite in minutes by not combining failed rounds with a second height.  What this leaves
  to the proof: three and more views, and committees of any size.
* Ledger: six blocks hold three windows and let a validator be paused, forced out, released
  and staked again; stakes of 10 and 4 with slashes of 25 and 50 percent and a limit of 60
  fall below the minimum, meet the limit in the middle of a slash and are rounded.  The
  fee, the small accounts and `MaxSupply` bound the number of transactions.
* Store: keys 100 and 101 share a parent below the root, and 001 lies on the other side,
  so that insertions split nodes and deletions collapse them; two versions and a rollback
  to the first are what stale entries need.
* Exchange: three operations fill a batch with an order, a deposit and a withdrawal, or lock,
  pay and close an order; four blocks on each side let a batch go out, be answered, be
  given up and come back late.  7 for 3 of pools of 20 is rounded everywhere.  Two deposits of
  different addresses pass the check on acceptance and meet the cap on execution, beside the
  provider of genesis.  The fourth nested block only settles what comes back, with no operation
  waiting behind: its certificate would not be answered (`LastBlockBounds`).
* Mempool: `spend` needs `pay` first, `pay` does not fit beside the others, `param` needs
  approval, `cert` has the highest rank and no fee, `bad` is refused in mid-batch.
* Sync: two heights of queue for blocks 3 and 4, with a limiter of one, make requests wait, time
  out and be sent to another peer.  One root-chain update with one commit fills the channel.
* Order book: two buyers' locks may reach the root in either order, by certificates built on
  a book in which the order is open; the fourth block is the first in which a lock of the
  first has expired, and the first payment is parsed again.  The order is edited from 3 to 4
  at any moment, the one payment that is to close it is of either amount, or goes to another
  seller, both in the first three blocks.  Build heights go back where nothing but the order, a lock and a close happens.
* Peers: two connections are a simultaneous dial or a dial and its successor; one fault
  breaks, restarts or overlaps at any moment.

Deadlock checking is off except in `sync`: the other systems stop at their bounds.  Blocks are
symmetric in the consensus runs and buyers in `crosschain`; no property tells them apart.
`crosschain` has a view without `replay`, a history that none of its properties reads.

### Fairness

`BFTLiveness` assumes weak fairness of the phase timer (each handler sets it again),
of receiving votes and blocks (gossip is repeated by every node that commits), and of
handling a reset (the loop selects it whenever no timer expires).  `WaitTime` grows
with the round (2 * round + 1 times the base), so under partial synchrony there is a
round from which all messages of a phase arrive before the next timer expires and
validators are in step: the constant `Reliable`.  In the rounds before, anything may be
lost.  In a reliable round a single candidate is elected, which is what sortition gives
when at least one message of a candidate arrives at all replicas.

`Sync` assumes weak fairness of every goroutine, timer and served request, that peers go
on committing, and strong fairness of gossip beyond the last height: `Sync` removes timed-out
requests only when a message arrives, so it needs the next block to notice that an answer
was lost.  Blocks come further apart than polls and time-outs.

`P2P` assumes weak fairness of every goroutine and tick and of the committee's list, which
the controller sends with every root-chain block.  That is so in the default configuration;
with `GossipThreshold` met (`controller/consensus.go:619`) validators send no list and rely on
the configured peers, and `EventuallyConnected` says nothing of them.  Faults are finite in number; nothing has
to happen that only the network or an operator causes.

## 5. Findings and observations

The finding with a run, `replay`: `CommitCertificate` (`controller/block.go:257`) gives a node
that did not validate a proposal the root batch of the block's own certificate "for
deterministic replay".  `HandleDex` flags that batch when the certificate gives the locked
batch up, and `HandleDexBatch` acts on the flag one block earlier than the validators did.

What follows was met while modelling.  The model has the behaviour where the part is
modelled, and the properties are stated so that they hold with it.

Consensus:

* `SafeNode` (`bft/bft.go:701`) accepts a proposal whose lock has a higher round, without
  regard to root heights, although rounds restart at 0 with a root-chain update that keeps
  locks.  `UnlockJustified` is therefore about one root height.  Agreement does not
  depend on it here: leaders take over the highest lock of +2/3, ordered by the full view.
* `HandleMessage` (`bft/msg.go:17`) checks a leader message outside the lock and does not
  check again when it stores it.  With a validator in `Preempted` a proposal of the
  previous root height is voted for; the runs have none.
* A sync that ends without a block (`controller/consensus.go`, `finishSyncing`) starts the
  height over in round 0 without the lock.  A validator that the others have left behind
  may thereby sign twice for a view, and evidence of it is valid.  `NoDoubleSign` and
  `LockKept` are about heights above which nothing is certified yet, and so is
  `LaterProposalsSafe`: such a leader may also propose another block.  Nothing it signs
  there can be decided any more, as section 6 shows.
* A lock taken over from a vote need not stay.  `AddVote` (`bft/vote.go:137`) takes it in
  whatever round the node is, so a lock of a later round may be replaced by that of the
  node's own round; and when `Pacemaker` has moved a node on to the height of a block whose
  reset is still waiting, that reset clears what was taken over since.  Neither concerns
  what the node has signed: `LockNotLost` is about validators that have signed at the height,
  and locks of views they have reached.
* `Pacemaker` (`bft/bft.go:569`) needs a third of the power where comment and `bft/bft.md`
  say two thirds.

State machine:

* `SlashValidator` (`fsm/byzantine.go:363`) deletes a validator whose stake becomes 0 and
  leaves its paused and unstaking keys.  An unstaking key makes `DeleteFinishedUnstaking`
  fail for want of a record, and with it every block of that height.  `IndexConsistent`
  allows for such keys.
* `ProcessDSE` (`bft/evidence.go:86`) takes the minimum evidence height from the state at the
  height of the evidence, so evidence never expires.
* A slash of a record that is a delegate (`fsm/byzantine.go:370`) calls `UpdateCommittees`,
  where `UpdateValidatorStake` tells delegates apart and calls `UpdateDelegations`.  The
  staked supply shrinks and the delegated one does not; what is counted as delegated stays
  too high, and `DelegatesCovered` is an inequality for that reason.
* Double signs are indexed by address and height without the chain (`fsm/byzantine.go:226`).
* The vested part of an account is a product that can overflow 64 bits
  (`fsm/account.go:108`); vesting is not modelled.
* `ApplyTransactions` (`fsm/state.go:202`) discards the writes of transactions beyond the
  block size but not the accounts they leave in the cache, so a proposal built over a full
  pool may have a root that nobody can reproduce.  `ProposalReproducible` excepts it.
* The comment on `HandleCommitteeSwaps` (`fsm/swap.go:18`) says that a close is of an order
  "whose 'buyer' sent the tokens to the seller before the deadline".  A reset or a close names
  only the order, and the root applies it to whatever lock the order has when the certificate
  arrives.  A proposer builds on the root height it knows of (`controller/tx.go:250`), and
  replicas refuse only one older than the root height of the last certificate that the root
  has included (`bft/bft.go:359`), so that while certificates are on their way a block may be
  built on an older book than the block before it.  Such a block resets, for a lock that has
  expired, the valid lock that followed it; the order is locked a third time, and the close
  for the second buyer's payment goes to the third buyer.  This takes a deadline of at least
  3 blocks and nine blocks, built for instance on the root heights 2 3 3 3 3 2 3 2 4, which is
  beyond the bounds of `crosschain` (TLC finds it when it is given these heights).
  `ClosedOnlyPaid` says always that the seller was paid what the order asked at some root
  height, and where build heights do not go back (`nested.back`) that it was the order's
  buyer who paid, and what it asks when it is closed.  There each reset is of the lock it was read for: a reset of another lock
  would need an earlier reset of another lock, and the first reset has none before it.
* The cap on liquidity providers is an error when a batch is executed (`fsm/dex.go:551`),
  which fails `BeginBlock` of the nested chain and, as the batch stays, of every later block.
  The deposit was accepted because each chain looks at its pool without what is under way.
  The run `crosschain` reaches it; `HaltsOnlyAtCap` says that no other error stops the chain.
* A batch is given up by the nested chain when the root has not answered it at the height that
  is read.  The certificate that carries it may still be on its way: the root executes the
  batch later, and its orders are then paid there and refunded here (`fsm/dex.go:681`).
  `GivenUpUnexecuted` is about what the root has executed at the height that was read, and
  `AtomicExchange` and `MirroredLedgers` about behaviours without such a batch.
* `ResetCaches` drops the cached root batch as well.

Store:

* `Root` writes the tree under `stateCommitIDPrefix` (`store/store.go:505`); `NewReadOnly`
  reads it under `stateCommitmentPrefix` (`store/store.go:206`), where nothing is written.  The
  comment at `store/store.go:159` says "to read the state commit store i.e. for merkle proofs,
  use NewReadOnly()"; its tree is a new one, and no proof taken from it verifies against the
  root of a state with entries.  A store that is not read-only has a tree only between `Root`
  and the `Reset` of `Commit`, and `GetProof` does not look whether it is there.  `ProofsSound`
  is about that tree.
* `NewReadOnly` (`store/store.go:194`) compares the version asked for with that of the store and
  takes the snapshot of the latest state after it.  A commit applied between the two leaves a
  store of version v with the state of v + 1 or later, beside the blocks and the history of v,
  where `fsm/state.go:324` promises "a specified block height".  `ReadsAsked` states both
  cases.

Controller and mempool:

* A commit that fails in the database resets the state machine, while
  `Consensus.BlockResult` still names the block: when the block is offered again it is
  committed (`controller/block.go:587`) without its state changes.  `StateIsReplay` is
  stated while no commit has failed.
* The check of the mempool at a commit runs in accept-all mode, so that a leader may propose
  unapproved governance transactions until the next lazy check; and the lazy check and
  `ValidateProposal` write the same mode under different locks.
* `AddTransactions` (`lib/mempool.go:113`) loses count of bytes of a batch that is refused in
  the middle; once the count alone exceeds the limit, the loop that drops transactions never
  ends on an empty pool (`hung` in `TxPool`).  Lines 60 to 67 of that file name a variable
  that does not exist there and do not compile; they are left out.
* `applyTimeouts` runs only after a message (`controller/consensus.go:150`), so a sync whose
  answers are all lost waits for the next gossip, where `controller/consensus.md:120` promises
  "Timeout handling to prevent stalling during synchronization".  The windows of the requester's and the responder's limiters are not aligned.
* `pollMaxHeight` takes gossip for the answer "height 0" and may end a sync early; the
  listener starts it again.
* A node with `SleepUntil` in the future does not read `ResetBFT`
  (`controller/controller.go:146`); 100 resets in that time block their senders, one of
  which may hold the lock.

P2P:

* Two overlapping dials of one node make the ends choose differently (the dialer keeps its
  first session, the acceptor the latest), both drop, and a redial follows.
* `DialFailedPeers` (`p2p/p2p.go:308`) deletes an entry that `OnPeerError` may have stored in
  the meantime; the next committee list repairs it.
* `dialing` in `DialForOutboundPeers` is never decremented.
* `sendHeartbeat` sends without the stream's mutex: a `Stop` between its look at `closed` and
  its send is a send on a closed channel (`p2p/conn.go:317`).
* A message whose packets meet a full queue is dropped in the middle (`p2p/conn.go:500`) and
  the next message of the stream is appended to what was sent of it.
* `Dial` leaves the TCP connection open when the handshake fails; `DialWithBackoff` gives
  up after about a minute; `ChangeReputation` (`p2p/set.go:158`) has no body; each message is sent
  by a goroutine of its own, so messages of a topic may be reordered.

## 6. Proofs

`BFTVotingProofs` proves, for every committee, set of quorums, set of views and set
of values:

* `TypeCorrect`: `Spec => []TypeOK`;
* `InvHolds`: `Spec => []Inv`;
* `AgreementHolds`: `Spec => []Agreement`;
* `DecisionImplemented`: `Spec => D!Spec`;
* `EqualPowerQuorumsMeet`: with equal power, the threshold of `NewValidatorSet`
  gives quorums that meet the assumption below while fewer than a third of the
  validators may restart.

Assumptions: any two quorums share a validator that keeps its memory
(`QuorumAssumption`); views are pairs of numbers; `Nil` is no lock and no value.

The argument.  `Agreement` is not inductive: it says nothing of votes under way.  The
invariant adds that

* locks are certificates (`LocksCertified`), votes follow proposals and certificates
  (`VotesJustified`), and a validator with memory has one vote per view
  (`OneVotePerView`), so that a view certifies one value;
* a validator's lock, and the lock in each of its election votes, is at least as high
  as each PRECOMMIT-VOTE it signed before (`LocksReported`);
* what is proposed in a view is the only value that earlier views can still decide
  (`ProposalsSafe`): for each earlier view some quorum has gone beyond it and whoever
  of that quorum signed there did so for this value.

A leader has counted election votes of a quorum and taken over their highest lock.
For a view below that lock, `ProposalsSafe` of the lock's own proposal applies; for
the lock's view, certificates are unique; above it, nobody in the quorum has signed.
So its proposal is safe.  Two decisions in different views then clash in a validator
of both quorums that keeps its memory.

Safety therefore rests on what leaders propose; `SafeNode` is not used.  That is
because validators follow the code.

### What validators sign

`BFTProofs` proves about the detailed model, for every committee and voting powers, all
rounds, heights and root heights, with messages lost, late or repeated, and resets, syncs
and restarts at any time:

* `TypeCorrect`: `Spec => []TypeOK`; among the types are that a lock is a certificate of
  PROPOSE-VOTEs with its block, that a leader message carries a certificate of the phase
  before it, and that the reset channel keeps its capacity;
* `NoDoubleSignHolds`: `Spec => []NoDoubleSign`;
* `LockKeptHolds`: `Spec => []LockKept`;
* `LockNotLostHolds`: `Spec => LockNotLost`, an action property.

Assumptions: the committee is finite with positive powers; at most one handler overtakes a
reset (`BoundAssumption`); `Nil` is no certificate.  Validators in `Restartable` may forget
everything, those in `Preempted` may find a stale message in their stores; the theorems are
about the others, and `NoDoubleSign` about the preempted ones as well.  Nothing is assumed
of quorums: what a validator signs depends on itself alone.

The argument.  A validator would be safe if its view only went up (`SignedBehind`).  It
does not: a reset takes it back to round 0.  So the invariant says what is true while a
reset is waiting or a sync is running: all it has signed lies below the heights the reset
leads to (`ResetsPass`), and so does the view in which the one handler that may run before
the reset would sign (`OvertakersPass`).  That this handler signs for its own view, and
not for one it has left, needs the stores to hold messages of the current heights only
(`EpochCurrent`), and that a view without reset is at the height of the chain
(`ViewReached`).  For the lock (`Locked`) a reset that keeps it and one that clears it
differ: the second happens only when nothing signed is left at the height.  That is also
why no step takes away the lock of a validator that has signed (`LockStep`).  The proof has
one lemma per action, under it one step per conjunct; handlers that end in `SendToProposer`
share theirs.

### What validators decide

`BFTProofs` goes on to prove of the same model, at all its heights and root heights together:

* `AgreementHolds`: `FaultsTolerated => (Spec => []Agreement)`;
* `LaterProposalsHold`: `FaultsTolerated => (Spec => []LaterProposalsSafe)`;
* `AgreementWithoutFaults`: `Restartable = {} /\ Preempted = {} => (Spec => []Agreement)`;
* `UnlockJustifiedHolds`: `FaultsTolerated => (Spec => UnlockJustified)`.

`FaultsTolerated` says that any three majorities share a reliable validator, one that neither
restarts nor stores a message across a reset, and that sortition elects reliable ones.
`FewFaults` derives it from the powers: those that fail have less power than three majorities
have beyond twice the committee, so without them it always holds, by `MinimumMaj23` and the
sums of `Sums`.  With them it holds only where three majorities overlap by more: one of five
equal validators may fail, but none of four.  Why the two parts:

* Three majorities and not two, because a validator that the others have left behind is not
  reliable at that height any more: it starts the height over and may sign again
  (`finishSyncing`).  The majority that left the height, and the two that would have to
  decide it differently, must meet in one that keeps its memory.
* Leaders, because a replica cannot check what they owe: the lock in a PROPOSE is not verified
  (`SafeNode` reads it), so a leader that forgot its lock or the votes of its electors
  proposes what it likes.  `BFTVoting` has leaders that may restart and shows what that needs.

The argument.  The second invariant, `Safe`, speaks about messages, which are never taken back:

* `Justified`: a certificate has a majority of votes behind it, a PROPOSE a majority that
  elected its sender, a PROPOSE-VOTE a PROPOSE and a PRECOMMIT-VOTE a poll of PROPOSE-VOTEs in
  its round.  As validators vote once in a round (`NoDoubleSign`), a round has one leader
  (`OneLeader`) and one polled proposal (`OnePoll`).
* `LocksSent`: an ELECTION-VOTE carries a lock that covers what its sender signed before, from
  `LockKept`.
* `ProposalsSafe`: for each earlier round a majority has gone beyond it, having signed nothing
  there but this proposal (`SafeAt`).  `NewProposalSafe` is the induction on rounds, as in
  `BFTVoting`, but over pairs of root height and round that handlers enter in any order.
* `HashCached` and `LockHeld`: what is proposed, voted for and locked are the hashes of the
  block that is held.  The code caches `BlockHash` apart from `Block` and takes over locks
  without their block, so this is a property and not a definition; it is what fails first for
  a validator left behind, and why `SafeAt` excludes it.
* `Frozen`: once a block above a height is certified, a majority has left the height with at
  most one decision possible whatever the others sign (`OneDecision`).  At that moment
  `ProposalsSafe` proves it (`Undecided`, `EarlierDecision`); from then on nothing the majority
  signed can change.

Two commits of a height then rest on two majorities of PRECOMMIT-VOTEs
(`CertificatesAgree`).  `SafeNode` is not used here either.

`SafeNode` is what `UnlockJustified` is about: a validator signs against what it
precommitted only when the other proposal has +2/3 behind it in a later round.  The replica
is shown a lock and does not verify it, so the proof needs a third invariant,
`LocksTraced`, that follows locks on their way to it:

* `LockSent`: the certificate of a PRECOMMIT, the lock in an ELECTION-VOTE and the lock in a
  PROPOSE are signed by a majority (`SignedByMaj`); the last one is a lock of the height of
  the message, and is what the message proposes.
* `LockCurrent`: a lock may belong to another height than the view, because a round interrupt
  or a root-chain update moves the view and keeps the lock.  The reset that clears it is then
  waiting, and no handler after that of ELECTION runs before it.

`SafeNode` also accepts equal results with another block, and a higher round whatever its
root height.  The first is covered as leaders are reliable and propose what they are locked
on, the second is why the property is about one root height (`UnlockStep`).

### The ledger

`LedgerProofs` proves, for all validators, committees, genesis files, parameters that
`ValidatorParams.Check` accepts and certificates:

* `IndexHolds`: `Spec => []IndexConsistent`;
* `SlashLimitHolds`: `Spec => []SlashWithinLimit`;
* `StakingTypeCorrect`: `Spec => []StakingTypeOK`;
* `SupplyTrackedHolds`: `Spec => []SupplyTracked`;
* `BalancesCoveredHolds`: `Spec => []BalancesCovered`;
* `LedgerInvHolds`: `Spec => []LedgerInv`.

The first three are proved together, as `StakingInv`.  `IndexConsistent` says how a record
and its keys go together within a block: keys may be due at this height until the forced
unstakes have run, and after them every paused record's key is later
(`phase = "unstake"`); `Commit` needs that no unstaking key of the height is left.  That
is what carries it over the change of height.  `SlashWithinLimit` needs the types, and
that a slash that is not spared starts below the limit.  One lemma per handler;
`OneRecord` is shared by those that change one validator.

The other three are proved together, as `LedgerInv`.  The supply is an integer in it,
because a subtraction could go below zero; that it does not follows from the sums: what is
taken from a total is part of what the total sums up.  `Moves` says what a handler adds to
or takes from accounts, pools, stakes and the total, and `Restakes` what it does to one
validator's stake in all its committees, so that each handler is reduced to two or three
changes of a sum at one argument.  `PayoutsCovered` needs that the percentages of a
payment add up to 100 at most (`InputAssumption`; `RewardRecipients.CheckBasic` in the
code) and that a pool is emptied by no more than the percentages already paid.

A sum here is the library's `SumFunctionOnSet`, a fold over a recursive function.  The
induction theorems cannot be instantiated with a predicate, but well-foundedness can be
used without one: the sets for which a claim fails have sizes, a non-empty set of sizes has
a least one, and the fold's last step takes a smaller set.  `Sums` proves in this way that
the fold does not depend on the order of its choices, and from it `SumRemove`, `SumUpdate`,
`SumPlus`, `SumMonotone`, `SumOfPart`, `SumNat` and `SumInt`, for all finite sets.

### The store

`StoreProofs` proves, for all keys, values, hashes without collisions and numbers of
versions and nested transactions:

* `VersionsIntactHolds`: `Spec => []VersionsIntact`;
* `ReadsAskedHolds`: `Spec => []ReadsAsked`.

The invariant is the first with `Shows`, what a reader has after each of its steps: the state
asked for from its first snapshot on; after the comparison, that the version asked for is the
newest one unless a commit has overtaken it.  `VersionsIntact` had to be said of each durable state
a crash may fall back to and of the batch under way, not only of the database, and of the
versions each of them has.  `View` is proved a function of the newest entries below a
version, so that entries of a later commit change no earlier view, and a rollback that
removes them gives back the view that was.

### Syncing

`SyncProofs` proves, for any peers, heights, sizes of queue, inbox and channel and any
number of faults:

* `SyncInvHolds`: `Spec => []SyncInv`;
* `NoCircularWaitHolds`: `Spec => []NoCircularWait`;
* `LoopFollowsChainHolds`: `Spec => []LoopFollowsChain`.

The assumption that carries `NoCircularWait` is `RootChainAssumption`: fewer root-chain
updates come while the loop is busy than the channel holds (100 in `bft.New`).
`ResetsBounded` says how many resets the threads with the lock add between two turns of the
loop, and `ResetPending` that a view behind the chain has its reset in the channel.

### Peers

`P2PProofs` proves `SessionsTrackedHolds`: `Spec => []SessionsTracked`, for any number of
nodes, connections, dials and faults.  Each handler is reduced to what it does at one end
of one connection (`Moves`, `Tracks`, `Holds`): another end and another node are unaffected
except where a closed end breaks the link.

`DuplicatesConvergeHolds`, `Spec => []DuplicatesConverge`, is about two ends that decide at
different times and hear of each other's decision by an error at most.  The invariant
(`Converging`) says what has become of the sessions so far: one that the lower key dialed is
never stopped and never doubled, and any other is stopped, or dialed a second time, only after
one end has added the preferred one (`Outranked`).  `RefusedOutranked` and
`ReplacedOutranked` read that off `shouldReplaceDuplicatePeer`; that a node does not dial
again while it has a session is `NoneLeaked`.

### Certified blocks

`ControllerProofs` proves `CertifiedNotRefusedHolds`: `Spec => []CertifiedNotRefused`, for
all transactions and pools.  It needs that the voting mode is reset whenever neither lock is
held (`ModeReset`) and that the certified block was valid on the committed state
(`CertifiedValid`).  Of `ApplyBlock` it uses only that it is a function of the state, the
block, the index and the mode, so what blocks compute stays closed.

`ChainReplayableHolds`, `Spec => []ChainReplayable`, opens `ApplyBlock`.  The loop of
`ApplyTransactions` is a function of the number of transactions it has done (`Progress`);
`ProgressExists` and `FromZero` show that the recursion has a solution, so that `ProgressSteps`
can unroll it.  On it rest three facts:

* `SameBlock`: a list without a failed transaction is executed in the same way by a node whose
  index is smaller and which accepts all proposals.  Replay is such a node: its index is empty.
* `NothingIndexed`: a valid block has no transaction of the index.
* `ValidDistinct`: and none twice, as each has passed `CheckTx` (`NoneFailed`).

The invariant (`ReplayInv`) says beside the property itself that the cached result stands for
a state machine that has executed its block on the committed state (`ResultKept`), unless the
block cannot be certified any more: it is of an older height, it was validated before this
node led a later view, or a commit failed in between.  These are the exceptions that the
property has; section 5 describes the last.  The assumption on the constants is
`ControllerAssumption`: what other leaders propose are lists of transactions.

`ProposalReproducibleHolds`, `Spec => []ProposalReproducible`, compares two executions: the
mempool's, over its whole pool and in the mode of the lazy check, and a validator's, over the
transactions that the first took.  A transaction that fails is rolled back with all caches, so
the two state machines have the same accounts and different caches.

* `Machine` says that a cache holds what the store holds, `Alike` that two machines differ in
  their caches only; every operation of `Execution` keeps both (`Writes` to `RewardsAlike`).
  That the caches follow the store is what the rollback of `fsm/state.go` is for: the mutant
  that keeps them breaks the property.
* `Rebuilt` goes along the pool: after each of its transactions the validator's loop over
  those taken so far is alike (`StepMatch`, `ProgressAppend`).
* `PoolBlock` ends it with the rewards and the header, under the hypothesis that everything
  fitted, which is the exception of the property (section 5), and that the pool has no
  duplicates (`MempoolInv`), so that the block has none (`TakenDistinct`).
* `ProposalInv` carries it through the steps: what the pool, the cached block and the block
  under validation hold are transactions (`RemainingTxs`, `InsertTxs`, `AddTxs` for the lists
  of `TxPool`), and the state machine is one that a block or a reset left (`RunMachine`).  A
  commit uses that the certified block is valid and the index grows by its transactions
  (`CommitProposal`).

It needs the rest of `ControllerAssumption`: the accounts of genesis, of the rewards and of
the transactions are accounts, and batches are lists of transactions.

`ControllerInvHolds`, `Spec => []ControllerInv`, adds the mempool and the types.

* The pool (`MempoolInv`): it is sorted by fee, it holds no transaction twice and none that is
  ill-formed, and its count of bytes covers what it holds.  `PlaceShape` shows where a
  transaction is put, since those that pay more are the first of a sorted list (`Prefix`);
  `InsertOrdered` follows a batch, `WithoutOrdered` a deletion.  What is left and what is taken
  share the bytes of the list (`BytesSplit`), so the count never falls below zero.
* The limits: `KeptSome` shows that the loop that drops transactions has a result, and
  `AddCounted` that what it leaves is within both limits unless the loop does not end.  The
  exception is `hung`; section 5 says when it occurs.  An addition that fails leaves the pool
  as it was, with the count too high.
* The types (`ValuesInv`): balances stay natural numbers in the store and in the cache, because
  a transaction is applied only to an account that has its amount and its fee (`Funded`,
  `FundedTransaction`), so that every block carries a state of the store (`BlockTyped`).

The steps use the invariants of the other three theorems.  Of `PoolAssumption` they use that
sizes, fees and amounts, the limits and the share that is dropped are natural numbers, the
limit on transactions and the share positive.  That fees differ is not used: it makes `Place`
the sort of the code, which does not say how equal fees are ordered.

### Only model-checked

* Liveness (`EventuallyCommitted`, `CatchesUp`, `EventuallyConnected`): the prover has no
  fairness.
* What recursive definitions compute: the tree (`RootOfContents`, `ProofsSound`), the merged
  iterator (`IterationExact`).
* The two chains: `Dex` and `Swap` fold a batch over balances that each order changes, so
  their sums need an induction along the batch, one for each kind of step.
* That the detailed consensus refines `BFTVoting`; the agreement of each is proved.

## 7. Not modelled

* Numeric and generated code: signatures, VRF, VDF and the class group (`lib/crypto`, of
  which `classgroup.go` alone is a sixth of the implementation) and the `*.pb.go` files,
  which have no logic of their own.  Together with RPC, CLI, the wallet and explorer
  (`cmd/`) and the Hunters routes they are most of the repository's lines, so that the share
  of lines that the models cover, about an eighth, is that of the protocol code and is not
  going to grow to a third.
* Vesting, parameter changes, polls, genesis import, events and the translation of Ethereum
  transactions: conversions and storage of records.  The mode in which proposals are
  judged is in `Controller`.
* Collection of double-sign evidence: it presupposes validators that deviate from the
  code, which `BFT` does not have.
* The plugin protocol: a synchronous request beside the state machine; no plugin is
  configured in the node that is modelled.
* The root-chain manager and its subscriptions: `BFT` and `Sync` take the update, and
  `CrossChain` the answer to a read, as given.
* Below the inbox: packets, streams, encryption and address book of `p2p`.
* `FailedTxCache` and the cached results of the mempool, which serve RPC; retirement in
  certificate results, metrics and logging.
